---------------------------- MODULE Spec2Model ----------------------------
(***************************************************************************)
(* Radar provider / timeline subsystem of the weather application:        *)
(*   - the RainViewer manifest cache (app/lib/maps/radarIem.ts),           *)
(*   - the map runtime-state reducer (app/lib/maps/state.ts),              *)
(*   - the maps screen's crossfade and playback (app/(tabs)/maps.tsx),     *)
(*   - the dual-slot animated radar hook (radar/useAnimatedRadar.ts),      *)
(*   - the frame-index helpers (timeline.ts, TimelineScrubber.tsx).        *)
(* Each part has its own specification over its own variables; the        *)
(* variables of the other parts keep their initial values.                 *)
(***************************************************************************)
EXTENDS Integers, Sequences, FiniteSets, TLC

VARIABLES
    \* ---- manifest cache (radarIem.ts) ----
    now,        \* Date.now(), in ms
    ticks,      \* number of clock advances so far
    RV_CACHE,   \* module-level cache { at, data }
    rvPc,       \* per caller: "idle" | "fetching" (awaiting fetch(url))
    rvNow,      \* per caller: the `now` captured at the top of fetchRainViewerMapsJson
    rvOut,      \* per caller: what the exported function last delivered
    fetchLog,   \* history: the upstream fetches issued, in order
    reqCount,   \* history: number of requests made so far
    lastReqAt,  \* history: the time of the latest request (-1: none yet)
    overlap     \* environment: TRUE when callers may overlap, FALSE when each
                \* request is made only after the previous one has completed

VARIABLES
    \* ---- map runtime state (state.ts) ----
    mapState,   \* MapRuntimeState: viewId, nerdy, viewport, layers, radarTime
    trip        \* history: a customized opacity followed through view switches

VARIABLES
    \* ---- frame-index helpers (timeline.ts, maps.tsx, TimelineScrubber.tsx) ----
    tlI,        \* the index argument, a JavaScript number
    tlN,        \* the frameCount argument
    tlClamp,    \* the results of the three clamp functions, once applied
    tlCyc       \* a start index taken through repeated next / prev

VARIABLES
    \* ---- maps screen (app/(tabs)/maps.tsx, TimelineScrubber.tsx) ----
    sMounted,          \* the screen is mounted
    dirty,             \* a render was committed whose effects have not run yet
    sNow,              \* Date.now() of the screen, in ms since mount
    sTicks,            \* number of clock advances so far
    sEvents,           \* number of user inputs handled so far
    rvFrames,          \* useState: frames delivered by fetchRainViewerFrames
    radarError,        \* useState: error message, "" for null
    providerLabel,     \* useState
    framesJob,         \* frames effect: "unstarted" | "pending" | "done"
    framesCancelled,   \* the `cancelled` flag of the frames effect's closure
    tileJobs,          \* tile-url effect: the awaited builds, each with its `cancelled` flag
    resolvedTargetUrl, \* useState
    baseUrl,           \* useState
    fadeUrl,           \* useState
    fadeT,             \* useState: progress, as elapsed ms out of FADE_DURATION
    animRef,           \* useRef: position in rafQueue of the requested frame, 0 for null
    rafQueue,          \* requestAnimationFrame callbacks not yet run, with their closures
    fadeCleanup,       \* the crossfade effect's last run returned a cleanup
    lastTargetDep,     \* targetUrlTemplate seen by the tile-url effect's last run
    lastResolvedDep,   \* resolvedTargetUrl seen by the crossfade effects' last run
    sIntervals,        \* TimelineScrubber: live setInterval timers, each with its closure
    timerRef,          \* TimelineScrubber useRef: position in sIntervals, 0 for null
    playReq,           \* history: the setPlaying request that produced this state
    lastAsync          \* history: what the latest step did with an awaited result

VARIABLES
    \* ---- dual-slot hook (radar/useAnimatedRadar.ts) ----
    hMounted,        \* the host component is mounted
    hDirty,          \* a render was committed whose effects have not run yet
    hEvents,         \* number of host inputs handled so far
    hOpacity,        \* the `opacity` option of the latest render (hundredths)
    hFrameIndex,     \* useState frameIndex
    hFront,          \* useState front
    hIsPlaying,      \* useState isPlaying
    hSpeedMs,        \* useState speedMs
    hOpacityA,       \* useState opacityA
    hOpacityB,       \* useState opacityB
    hTemplateA,      \* useState templateA
    hTemplateB,      \* useState templateB
    hFades,          \* live fade intervals, each with its closure (dir, i, opacity)
    hFadeTimer,      \* useRef fadeTimer: position in hFades, 0 for null
    hIntervals,      \* live playback intervals, each with its closure
    hOwned,          \* the interval the playback effect's cleanup will clear, 0 if none
    hLastOpacityDep, \* `opacity` seen by the opacity effect's last run (-1: never ran)
    hLastPlayDeps    \* dependencies seen by the playback effect's last run

VARIABLES
    \* ---- nearest radar site (resolveNearestRadar.ts, getLocalRadarId.ts) ----
    rnLat,       \* the `lat` argument, a JavaScript number
    rnLon,       \* the `lon` argument
    rnOpts,      \* the options: maxDistanceKm and filter
    rnRegistry,  \* NEXRAD_SITES, in registry order
    rnOut        \* what the call returned, once made

VARIABLES
    \* ---- RainViewer provider adapter (radar/providers/rainviewer.ts) ----
    pvNow,           \* Date.now()
    pvTicks,         \* number of clock advances so far
    pvCalls,         \* number of calls made so far
    cachedFrames,    \* module-level: RadarFrame[] | null
    cacheExpiresAt,  \* module-level
    pvInst,          \* per provider: its cachedHost, cachedPaths, the pending
                     \* getFrames (with the `now` it captured) and what its
                     \* getFrames last returned, or how it was last rejected,
                     \* and the response it fetched if that call fetched one
    pvOut            \* the getTileUrlTemplate call just made, if the latest step was one

VARIABLES
    \* ---- SET_VIEW applied to a state of the reducer (state.ts:68-91) ----
    svPrev,          \* the state SET_VIEW is dispatched on
    svOut            \* the view asked for and the state the reducer returned

VARIABLES
    \* ---- Anchor point of the maps screen (maps.tsx 121-145, 330-362) ----
    anMounted,       \* the screen is mounted
    anDirty,         \* a render was committed whose effects have not run yet
    anNow,           \* Date.now()
    anTicks,         \* number of clock advances so far
    anEvents,        \* number of user and location events so far
    permission,      \* useLocation().permission
    location,        \* useLocation().location, or null
    anchorMode,      \* 'gps' | 'map'
    anchorPoint,     \* the anchor point, or null
    mapCenter,       \* the center of the map's region
    anTimeouts,      \* pending setTimeout callbacks of the debounce, each with
                     \* its arguments, due time and the anchorMode it closed over
    tRef,            \* tRef.current: position in anTimeouts, 0 when none pending
    anLastGpsDeps,   \* dependencies the effect of 128-133 last ran with
    anLastFirstDeps  \* dependencies the effect of 135-140 last ran with

VARIABLES
    \* ---- TimelineScrubber under its parent's renders (TimelineScrubber.tsx) ----
    tsState,       \* props.state, the parent's MapRuntimeState
    tsFrameCount,  \* props.frames.length
    tsCallbacks,   \* identity of props.onSetFrame / onSetPlaying: new on each render
    tsDirty,       \* a render was committed whose effect has not run yet
    tsIntervals,   \* live setInterval timers, each with its closure and the ms left
    tsTimerRef,    \* useRef timerRef: position in tsIntervals, 0 for null
    tsLastDeps     \* dependencies the timer effect last ran with

cacheVars == <<now, ticks, RV_CACHE, rvPc, rvNow, rvOut, fetchLog, reqCount, lastReqAt, overlap>>

reducerVars == <<mapState, trip>>

timelineVars == <<tlI, tlN, tlClamp, tlCyc>>

screenVars == <<sMounted, dirty, sNow, sTicks, sEvents, rvFrames, radarError,
                providerLabel, framesJob, framesCancelled, tileJobs, resolvedTargetUrl, baseUrl,
                fadeUrl, fadeT, animRef, rafQueue, fadeCleanup, lastTargetDep,
                lastResolvedDep, sIntervals, timerRef, playReq, lastAsync>>

hookVars == <<hMounted, hDirty, hEvents, hOpacity, hFrameIndex, hFront, hIsPlaying,
              hSpeedMs, hOpacityA, hOpacityB, hTemplateA, hTemplateB, hFades,
              hFadeTimer, hIntervals, hOwned, hLastOpacityDep, hLastPlayDeps>>

resolverVars == <<rnLat, rnLon, rnOpts, rnRegistry, rnOut>>

providerVars == <<pvNow, pvTicks, pvCalls, cachedFrames, cacheExpiresAt, pvInst, pvOut>>

viewSwitchVars == <<svPrev, svOut>>

scrubberVars == <<tsState, tsFrameCount, tsCallbacks, tsDirty, tsIntervals, tsTimerRef,
                  tsLastDeps>>

anchorVars == <<anMounted, anDirty, anNow, anTicks, anEvents, permission, location,
                anchorMode, anchorPoint, mapCenter, anTimeouts, tRef, anLastGpsDeps,
                anLastFirstDeps>>

vars == <<cacheVars, reducerVars, timelineVars, screenVars, hookVars, resolverVars,
          providerVars, viewSwitchVars, anchorVars, scrubberVars>>

\* What the steps of one part leave alone
notCache == <<reducerVars, timelineVars, screenVars, hookVars,
              resolverVars, providerVars, viewSwitchVars, anchorVars,
    scrubberVars>>
notReducer == <<cacheVars, timelineVars, screenVars, hookVars,
                resolverVars, providerVars, viewSwitchVars, anchorVars,
    scrubberVars>>
notTimeline == <<cacheVars, reducerVars, screenVars, hookVars,
                 resolverVars, providerVars, viewSwitchVars, anchorVars,
    scrubberVars>>
notScreen == <<cacheVars, timelineVars, trip, hookVars,
               resolverVars, providerVars, viewSwitchVars, anchorVars,
    scrubberVars>>
notHook == <<cacheVars, reducerVars, timelineVars, screenVars,
             resolverVars, providerVars, viewSwitchVars, anchorVars,
    scrubberVars>>
notResolver == <<cacheVars, reducerVars, timelineVars, screenVars,
                 hookVars, providerVars, viewSwitchVars, anchorVars,
    scrubberVars>>
notProvider == <<cacheVars, reducerVars, timelineVars, screenVars,
                 hookVars, resolverVars, viewSwitchVars, anchorVars,
    scrubberVars>>
notViewSwitch == <<cacheVars, reducerVars, timelineVars, screenVars, hookVars,
                   resolverVars, providerVars, anchorVars,
    scrubberVars>>
notAnchor == <<cacheVars, reducerVars, timelineVars, screenVars, hookVars,
                   resolverVars, providerVars, viewSwitchVars,
    scrubberVars>>
notScrubber == <<cacheVars, reducerVars, timelineVars, screenVars, hookVars,
                   resolverVars, providerVars, viewSwitchVars, anchorVars>>

-----------------------------------------------------------------------------
(* Small helpers *)

Min(a, b) == IF a < b THEN a ELSE b
Max(a, b) == IF a > b THEN a ELSE b

-----------------------------------------------------------------------------
(* Manifest cache: app/lib/maps/radarIem.ts *)

RV_TTL_MS == 60000

\* Bounds of the cache model
MaxTicks == 3
MaxRequests == 3

\* Clock advances the model takes: 1 ms and just under the TTL (together: the TTL)
ClockSteps == {1, RV_TTL_MS - 1}

Callers == {"frames", "tile"}

\* Strings are sequences of tokens, so that endsWith/startsWith/slice are computed.
TileSuffix == <<"/256/{z}/{x}/{y}/2/1_1.png">>
HostPlain == <<"https://tilecache.rainviewer.com">>
HostSlash == <<"https://tilecache.rainviewer.com", "/">>
PathA == <<"/", "v2/radar/10">>
PathB == <<"v2/radar/20">>

\* One {time, path} entry of the manifest; the tags say what typeof reports.
Entry(t, p) == [timeIsNum |-> TRUE, time |-> t, pathIsStr |-> TRUE, path |-> p]
BadEntry(p) == [timeIsNum |-> FALSE, time |-> 0, pathIsStr |-> TRUE, path |-> p]

\* res.json() values. isNull is JSON null; host = <<>> is a missing/empty host.
Manifest(h, past, nowcast) ==
    [isNull |-> FALSE, host |-> h, past |-> past, nowcast |-> nowcast]
NoData == [isNull |-> TRUE, host |-> <<>>, past |-> <<>>, nowcast |-> <<>>]

M_good1 == Manifest(HostPlain, <<Entry(10, PathA)>>, <<Entry(20, PathB)>>)
M_good2 == Manifest(HostSlash, <<Entry(10, PathA), Entry(20, PathB)>>, <<>>)
M_nohost == Manifest(<<>>, <<Entry(10, PathA)>>, <<>>)
M_empty == Manifest(HostPlain, <<>>, <<>>)
M_badfields == Manifest(HostPlain, <<BadEntry(PathA)>>, <<>>)

OkBodies == {M_good1, M_good2, M_nohost, M_empty, M_badfields, NoData}
FailKinds == {"http_error", "transport_error"}

ValidEntry(f) == f.timeIsNum /\ f.pathIsStr

\* A well-formed manifest: host present, every entry typed, at least one frame.
WellFormed(d) ==
    /\ ~d.isNull
    /\ d.host # <<>>
    /\ \A i \in 1..Len(d.past) : ValidEntry(d.past[i])
    /\ \A i \in 1..Len(d.nowcast) : ValidEntry(d.nowcast[i])
    /\ Len(d.past) + Len(d.nowcast) > 0

NoOut == [kind |-> "none", frames |-> <<>>, tileUrl |-> <<>>, err |-> ""]
ErrOut(msg) == [kind |-> "error", frames |-> <<>>, tileUrl |-> <<>>, err |-> msg]

\* Mutant of CacheFresh: the entry is still served at exactly RV_TTL_MS of age
CacheFresh_Inclusive(cache, t) == ~cache.data.isNull /\ t - cache.at <= RV_TTL_MS

\* radarIem.ts:134  if (RV_CACHE.data && now - RV_CACHE.at < RV_TTL_MS)
CacheFresh(cache, t) == ~cache.data.isNull /\ t - cache.at < RV_TTL_MS

\* radarIem.ts:145-159
fetchRainViewerFrames(data) ==
    LET all == data.past \o data.nowcast
        kept == SelectSeq(all, ValidEntry)
    IN [i \in 1..Len(kept) |-> [iso |-> kept[i].time * 1000, stamp |-> kept[i].path]]

\* radarIem.ts:161-167
buildRainViewerTileTemplate(host, path) ==
    LET h == IF host[Len(host)] = "/" THEN SubSeq(host, 1, Len(host) - 1) ELSE host
        p == IF path # <<>> /\ path[1] = "/" THEN path ELSE <<"/">> \o path
    IN h \o p \o TileSuffix

\* radarIem.ts:199-212, after the awaited manifest
buildRainViewerTileUrlForFrame(data, framePath) ==
    IF data.host = <<>>
    THEN ErrOut("RainViewer maps.json missing host")
    ELSE [kind |-> "tile", frames |-> <<>>,
          tileUrl |-> buildRainViewerTileTemplate(data.host, framePath), err |-> ""]

\* What caller c makes of the manifest it awaited
Deliver(c, data) ==
    IF c = "frames"
    THEN [kind |-> "frames", frames |-> fetchRainViewerFrames(data),
          tileUrl |-> <<>>, err |-> ""]
    ELSE buildRainViewerTileUrlForFrame(data, PathA)

InFlight == {c \in Callers : rvPc[c] = "fetching"}

InitCacheVars ==
    /\ now = 0
    /\ ticks = 0
    /\ RV_CACHE = [at |-> 0, data |-> NoData]
    /\ rvPc = [c \in Callers |-> "idle"]
    /\ rvNow = [c \in Callers |-> 0]
    /\ rvOut = [c \in Callers |-> NoOut]
    /\ fetchLog = <<>>
    /\ reqCount = 0
    /\ lastReqAt = -1

\* The clock advances
Tick ==
    /\ ticks < MaxTicks
    /\ reqCount < MaxRequests
    /\ \E d \in ClockSteps : now' = now + d
    /\ ticks' = ticks + 1
    /\ UNCHANGED <<RV_CACHE, rvPc, rvNow, rvOut, fetchLog, reqCount, lastReqAt, overlap>>
    /\ UNCHANGED notCache

\* fetchRainViewerMapsJson returns the cached manifest (radarIem.ts:133-134)
CallHit(c) ==
    /\ rvPc[c] = "idle"
    /\ reqCount < MaxRequests
    /\ overlap \/ InFlight = {}
    /\ CacheFresh(RV_CACHE, now)
    /\ rvOut' = [rvOut EXCEPT ![c] = Deliver(c, RV_CACHE.data)]
    /\ reqCount' = reqCount + 1
    /\ lastReqAt' = now
    /\ UNCHANGED <<now, ticks, RV_CACHE, rvPc, rvNow, fetchLog, overlap>>
    /\ UNCHANGED notCache

\* fetchRainViewerMapsJson misses and issues fetch(url) (radarIem.ts:133-137)
CallMiss(c) ==
    /\ rvPc[c] = "idle"
    /\ reqCount < MaxRequests
    /\ overlap \/ InFlight = {}
    /\ ~CacheFresh(RV_CACHE, now)
    /\ rvPc' = [rvPc EXCEPT ![c] = "fetching"]
    /\ rvNow' = [rvNow EXCEPT ![c] = now]
    /\ rvOut' = [rvOut EXCEPT ![c] = NoOut]
    /\ fetchLog' = Append(fetchLog, [t |-> now, by |-> c, stored |-> FALSE])
    /\ reqCount' = reqCount + 1
    /\ lastReqAt' = now
    /\ UNCHANGED <<now, ticks, RV_CACHE, overlap>>
    /\ UNCHANGED notCache

\* Index in fetchLog of the fetch caller c is awaiting
FetchIndexOf(c) ==
    CHOOSE i \in 1..Len(fetchLog) :
        /\ fetchLog[i].by = c
        /\ \A j \in (i + 1)..Len(fetchLog) : fetchLog[j].by # c

\* fetch rejects, or res.ok is false: the function throws (radarIem.ts:137-138)
RespondFail(c) ==
    /\ rvPc[c] = "fetching"
    /\ \E k \in FailKinds :
         rvOut' = [rvOut EXCEPT ![c] =
                     ErrOut(IF k = "http_error" THEN "RainViewer maps.json failed"
                            ELSE "Network request failed")]
    /\ rvPc' = [rvPc EXCEPT ![c] = "idle"]
    /\ UNCHANGED <<now, ticks, RV_CACHE, rvNow, fetchLog, reqCount, lastReqAt, overlap>>
    /\ UNCHANGED notCache

\* res.ok: the body is parsed, stored and returned (radarIem.ts:139-142)
RespondOk(c) ==
    /\ rvPc[c] = "fetching"
    /\ \E data \in OkBodies :
         /\ RV_CACHE' = [at |-> rvNow[c], data |-> data]
         /\ rvOut' = [rvOut EXCEPT ![c] = Deliver(c, data)]
         /\ fetchLog' = [fetchLog EXCEPT ![FetchIndexOf(c)].stored = ~data.isNull]
    /\ rvPc' = [rvPc EXCEPT ![c] = "idle"]
    /\ UNCHANGED <<now, ticks, rvNow, reqCount, lastReqAt, overlap>>
    /\ UNCHANGED notCache

NextCache ==
    \/ Tick
    \/ \E c \in Callers : CallHit(c)
    \/ \E c \in Callers : CallMiss(c)
    \/ \E c \in Callers : RespondFail(c)
    \/ \E c \in Callers : RespondOk(c)

-----------------------------------------------------------------------------
(* Map runtime state: app/lib/maps/state.ts, layerCatalog.ts, views.ts *)
(* Opacities are in hundredths (0.55 is 55); NaN is a tagged input.      *)

Num(x) == [isNaN |-> FALSE, v |-> x]
NaN == [isNaN |-> TRUE, v |-> 0]

\* layerCatalog.ts:42-121, in catalog order: id and defaultOpacity
LAYER_CATALOG ==
    << [id |-> "radar.reflectivity", defaultOpacity |-> 90],
       [id |-> "wildfire.smoke", defaultOpacity |-> 55],
       [id |-> "wildfire.perimeters", defaultOpacity |-> 85],
       [id |-> "wildfire.hotspots", defaultOpacity |-> 90],
       [id |-> "lightning.strikes", defaultOpacity |-> 95],
       [id |-> "alerts.polygons", defaultOpacity |-> 95] >>

CatalogIds == {LAYER_CATALOG[i].id : i \in 1..Len(LAYER_CATALOG)}

ViewIds == {"radar", "wildfire", "storm", "aviation"}

\* views.ts:4-46: presetEnabledLayers and presetLayerOpacity of each view
MAP_VIEWS ==
    [v \in ViewIds |->
        CASE v = "radar" ->
               [presetEnabledLayers |-> {"radar.reflectivity"},
                presetLayerOpacity |-> <<>>]
          [] v = "wildfire" ->
               [presetEnabledLayers |->
                    {"radar.reflectivity", "wildfire.smoke", "wildfire.perimeters"},
                presetLayerOpacity |->
                    << [id |-> "radar.reflectivity", op |-> Num(85)],
                       [id |-> "wildfire.smoke", op |-> Num(55)],
                       [id |-> "wildfire.perimeters", op |-> Num(90)] >>]
          [] v = "storm" ->
               [presetEnabledLayers |-> {"radar.reflectivity", "lightning.strikes"},
                presetLayerOpacity |-> <<>>]
          [] v = "aviation" ->
               [presetEnabledLayers |-> {"radar.reflectivity"},
                presetLayerOpacity |-> <<>>]]

\* state.ts:131-134
clamp01(n) == IF n.isNaN THEN 0 ELSE Max(0, Min(100, n.v))

\* A LayerRuntimeState object; a field may be missing (undefined) on an object
\* that was built by spreading an absent entry.
Layer(en, op) == [hasEnabled |-> TRUE, enabled |-> en, hasOpacity |-> TRUE, opacity |-> op]
EmptyLayer == [hasEnabled |-> FALSE, enabled |-> FALSE, hasOpacity |-> FALSE, opacity |-> 0]

\* { ...state.layers[id] }: the entry, or an empty object when the key is absent
SpreadLayer(layers, id) == IF id \in DOMAIN layers THEN layers[id] ELSE EmptyLayer

\* state.ts:15-22
buildDefaultLayers ==
    [id \in CatalogIds |->
        LET i == CHOOSE k \in 1..Len(LAYER_CATALOG) : LAYER_CATALOG[k].id = id
        IN Layer(FALSE, LAYER_CATALOG[i].defaultOpacity)]

\* Mutant of ApplyPresetEnabled: the preset enables nothing
ApplyPresetEnabled_None(layers, ids) == layers

\* state.ts:44-47
ApplyPresetEnabled(layers, ids) ==
    [id \in DOMAIN layers |->
        IF id \in ids THEN [layers[id] EXCEPT !.hasEnabled = TRUE, !.enabled = TRUE]
        ELSE layers[id]]

\* state.ts:49-54
RECURSIVE ApplyPresetOpacity(_, _)
ApplyPresetOpacity(layers, ops) ==
    IF ops = <<>> THEN layers
    ELSE LET e == Head(ops)
             l2 == IF e.id \in DOMAIN layers
                   THEN [layers EXCEPT ![e.id].hasOpacity = TRUE,
                                       ![e.id].opacity = clamp01(e.op)]
                   ELSE layers
         IN ApplyPresetOpacity(l2, Tail(ops))

\* state.ts:32-36: the default viewport (coordinates in 1e-4 degrees)
DefaultViewport == [center |-> [lat |-> 334152, lon |-> -1118315], zoom |-> 9]
OtherViewport == [center |-> [lat |-> 395000, lon |-> -983500], zoom |-> 4]

\* state.ts:24-64
createInitialMapState(viewId, nerdy, viewport) ==
    LET view == MAP_VIEWS[viewId]
        layers == ApplyPresetOpacity(
                      ApplyPresetEnabled(buildDefaultLayers, view.presetEnabledLayers),
                      view.presetLayerOpacity)
    IN [viewId |-> viewId, nerdy |-> nerdy, viewport |-> viewport, layers |-> layers,
        radarTime |-> [frameIndex |-> 0, playing |-> FALSE]]

\* Mutant of PreserveOpacity: the previous opacities are not carried over
PreserveOpacity_Dropped(prevLayers, nextLayers) == nextLayers

\* state.ts:75-86: preserve user opacity overrides across views
PreserveOpacity(prevLayers, nextLayers) ==
    [id \in DOMAIN nextLayers |->
        IF id \in DOMAIN prevLayers
        THEN [nextLayers[id] EXCEPT !.hasOpacity = prevLayers[id].hasOpacity,
                                    !.opacity = prevLayers[id].opacity]
        ELSE nextLayers[id]]

\* state.ts:66-129
mapReducer(state, action) ==
    CASE action.type = "SET_VIEW" ->
           LET next == createInitialMapState(action.viewId, state.nerdy, state.viewport)
           IN [next EXCEPT !.layers = PreserveOpacity(state.layers, next.layers),
                           !.radarTime = state.radarTime]
      [] action.type = "SET_NERDY" ->
           [state EXCEPT !.nerdy = action.nerdy]
      [] action.type = "SET_LAYER_ENABLED" ->
           LET entry == [SpreadLayer(state.layers, action.layerId)
                            EXCEPT !.hasEnabled = TRUE, !.enabled = action.enabled]
           IN [state EXCEPT !.layers =
                  [id \in DOMAIN state.layers \cup {action.layerId} |->
                      IF id = action.layerId THEN entry ELSE state.layers[id]]]
      [] action.type = "SET_LAYER_OPACITY" ->
           LET entry == [SpreadLayer(state.layers, action.layerId)
                            EXCEPT !.hasOpacity = TRUE, !.opacity = clamp01(action.opacity)]
           IN [state EXCEPT !.layers =
                  [id \in DOMAIN state.layers \cup {action.layerId} |->
                      IF id = action.layerId THEN entry ELSE state.layers[id]]]
      [] action.type = "SET_VIEWPORT" ->
           [state EXCEPT !.viewport = action.viewport]
      [] action.type = "SET_RADAR_FRAME" ->
           [state EXCEPT !.radarTime.frameIndex = action.frameIndex]
      [] action.type = "SET_RADAR_PLAYING" ->
           [state EXCEPT !.radarTime.playing = action.playing]
      [] OTHER -> state

\* Inputs the model dispatches
InputLayerIds == {"radar.reflectivity", "wildfire.smoke", "nonexistent-id"}
OpacityInputs == {Num(30), Num(150), Num(-20), NaN}
FrameInputs == {0, 7}

NoTrip == [stage |-> -1, layerId |-> "", asked |-> Num(0), o |-> 0, viewA |-> "", viewB |-> ""]

\* maps.tsx:96-98
InitReducer ==
    /\ mapState = createInitialMapState("radar", FALSE, DefaultViewport)
    /\ trip = NoTrip

SetView(v) ==
    /\ mapState' = mapReducer(mapState, [type |-> "SET_VIEW", viewId |-> v])
    /\ trip' = CASE trip.stage = 0 -> [trip EXCEPT !.stage = 1, !.viewB = v]
                 [] trip.stage = 1 /\ v = trip.viewA -> [trip EXCEPT !.stage = 2]
                 [] OTHER -> NoTrip
    /\ UNCHANGED notReducer

SetNerdy(b) ==
    /\ mapState' = mapReducer(mapState, [type |-> "SET_NERDY", nerdy |-> b])
    /\ trip' = NoTrip
    /\ UNCHANGED notReducer

SetLayerEnabled(id, b) ==
    /\ mapState' = mapReducer(mapState,
                       [type |-> "SET_LAYER_ENABLED", layerId |-> id, enabled |-> b])
    /\ trip' = NoTrip
    /\ UNCHANGED notReducer

SetLayerOpacity(id, op) ==
    /\ mapState' = mapReducer(mapState,
                       [type |-> "SET_LAYER_OPACITY", layerId |-> id, opacity |-> op])
    /\ trip' = IF id \in CatalogIds
               THEN [stage |-> 0, layerId |-> id, asked |-> op,
                     o |-> mapState'.layers[id].opacity,
                     viewA |-> mapState.viewId, viewB |-> ""]
               ELSE NoTrip
    /\ UNCHANGED notReducer

SetViewport(vp) ==
    /\ mapState' = mapReducer(mapState, [type |-> "SET_VIEWPORT", viewport |-> vp])
    /\ trip' = NoTrip
    /\ UNCHANGED notReducer

SetRadarFrame(i) ==
    /\ mapState' = mapReducer(mapState, [type |-> "SET_RADAR_FRAME", frameIndex |-> i])
    /\ trip' = NoTrip
    /\ UNCHANGED notReducer

SetRadarPlaying(b) ==
    /\ mapState' = mapReducer(mapState, [type |-> "SET_RADAR_PLAYING", playing |-> b])
    /\ trip' = NoTrip
    /\ UNCHANGED notReducer

\* Bound of the view-switch model: the number of actions dispatched before SET_VIEW
MaxPriorActions == 2

\* Every action the model dispatches (state.ts:6-13)
ReducerActions ==
    {[type |-> "SET_VIEW", viewId |-> v] : v \in ViewIds}
    \cup {[type |-> "SET_NERDY", nerdy |-> b] : b \in BOOLEAN}
    \cup {[type |-> "SET_LAYER_ENABLED", layerId |-> id, enabled |-> b] :
              id \in InputLayerIds, b \in BOOLEAN}
    \cup {[type |-> "SET_LAYER_OPACITY", layerId |-> id, opacity |-> op] :
              id \in InputLayerIds, op \in OpacityInputs}
    \cup {[type |-> "SET_VIEWPORT", viewport |-> vp] : vp \in {DefaultViewport, OtherViewport}}
    \cup {[type |-> "SET_RADAR_FRAME", frameIndex |-> i] : i \in FrameInputs}
    \cup {[type |-> "SET_RADAR_PLAYING", playing |-> b] : b \in BOOLEAN}

\* The states the reducer yields from the initial state within k actions
RECURSIVE StatesWithin(_)
StatesWithin(k) ==
    IF k = 0 THEN {createInitialMapState("radar", FALSE, DefaultViewport)}
    ELSE LET S == StatesWithin(k - 1)
         IN S \cup {mapReducer(st, a) : st \in S, a \in ReducerActions}

NotSwitched == [called |-> FALSE, viewId |-> "", next |-> <<>>]

InitViewSwitch ==
    /\ svPrev \in StatesWithin(MaxPriorActions)
    /\ svOut = NotSwitched

InitViewSwitchFixed ==
    /\ svPrev = createInitialMapState("radar", FALSE, DefaultViewport)
    /\ svOut = NotSwitched

\* mapReducer(state, { type: 'SET_VIEW', viewId: v }): state.ts:68-91
SwitchView(v) ==
    /\ svOut' = [called |-> TRUE, viewId |-> v,
                 next |-> mapReducer(svPrev, [type |-> "SET_VIEW", viewId |-> v])]
    /\ UNCHANGED svPrev
    /\ UNCHANGED notViewSwitch

NextViewSwitch == \E v \in ViewIds : SwitchView(v)

NextReducer ==
    \/ \E v \in ViewIds : SetView(v)
    \/ \E b \in BOOLEAN : SetNerdy(b)
    \/ \E id \in InputLayerIds, b \in BOOLEAN : SetLayerEnabled(id, b)
    \/ \E id \in InputLayerIds, op \in OpacityInputs : SetLayerOpacity(id, op)
    \/ \E vp \in {DefaultViewport, OtherViewport} : SetViewport(vp)
    \/ \E i \in FrameInputs : SetRadarFrame(i)
    \/ \E b \in BOOLEAN : SetRadarPlaying(b)

-----------------------------------------------------------------------------
(* Frame-index helpers: app/lib/maps/timeline.ts, app/(tabs)/maps.tsx,     *)
(* components/maps/TimelineScrubber.tsx                                    *)
(* A JavaScript number is finite (h is twice its value, so halves exist),  *)
(* NaN, +Infinity or -Infinity.                                            *)

\* Bounds of the helper model
MaxFrameCount == 5
MaxIndex == 7

Fin(x) == [kind |-> "fin", h |-> 2 * x]
Half(h) == [kind |-> "fin", h |-> h]
JsNaN == [kind |-> "nan", h |-> 0]
PosInf == [kind |-> "posinf", h |-> 0]
NegInf == [kind |-> "neginf", h |-> 0]

IsInteger(x) == x.kind = "fin" /\ x.h % 2 = 0

\* Number.isFinite
IsFinite(x) == x.kind = "fin"

\* Math.floor
Floor(x) == IF x.kind = "fin" THEN Half(2 * (x.h \div 2)) ELSE x

\* a < b on numbers that are not NaN
JsLess(a, b) ==
    CASE a.kind = "neginf" -> b.kind # "neginf"
      [] a.kind = "posinf" -> FALSE
      [] OTHER -> \/ b.kind = "posinf"
                  \/ b.kind = "fin" /\ a.h < b.h

\* Math.min / Math.max: NaN if either argument is NaN
MathMin(a, b) ==
    IF a.kind = "nan" \/ b.kind = "nan" THEN JsNaN
    ELSE IF JsLess(b, a) THEN b ELSE a
MathMax(a, b) ==
    IF a.kind = "nan" \/ b.kind = "nan" THEN JsNaN
    ELSE IF JsLess(a, b) THEN b ELSE a

\* a % n for integers, n > 0: the result has the sign of the dividend
JsRem(a, n) == IF a >= 0 THEN a % n ELSE -((-a) % n)

\* Mutant of clampFrameIndex: the upper limit is frameCount instead of frameCount - 1
clampFrameIndex_OffByOne(index, frameCount) ==
    IF ~IsFinite(index) \/ frameCount <= 0 THEN Fin(0)
    ELSE MathMax(Fin(0), MathMin(Fin(frameCount), Floor(index)))

\* timeline.ts:34-37
clampFrameIndex(index, frameCount) ==
    IF ~IsFinite(index) \/ frameCount <= 0 THEN Fin(0)
    ELSE MathMax(Fin(0), MathMin(Fin(frameCount - 1), Floor(index)))

\* maps.tsx:54-57
clamp(i, n) ==
    IF n <= 0 THEN Fin(0)
    ELSE MathMax(Fin(0), MathMin(Fin(n - 1), Floor(i)))

\* TimelineScrubber.tsx:9-12
clampScrubber(i, n) ==
    IF n <= 0 THEN Fin(0)
    ELSE MathMax(Fin(0), MathMin(Fin(n - 1), Floor(i)))

\* Mutant of nextFrameIndex: the index stops at the last frame instead of wrapping
nextFrameIndex_NoWrap(current, frameCount) ==
    IF frameCount <= 0 THEN 0
    ELSE LET c == clampFrameIndex(Fin(current), frameCount).h \div 2
         IN Min(c + 1, frameCount - 1)

\* timeline.ts:39-43 (integer arguments)
nextFrameIndex(current, frameCount) ==
    IF frameCount <= 0 THEN 0
    ELSE LET c == clampFrameIndex(Fin(current), frameCount).h \div 2
         IN JsRem(c + 1, frameCount)

\* timeline.ts:45-49 (integer arguments)
prevFrameIndex(current, frameCount) ==
    IF frameCount <= 0 THEN 0
    ELSE LET c == clampFrameIndex(Fin(current), frameCount).h \div 2
         IN JsRem(c - 1 + frameCount, frameCount)

\* TimelineScrubber.tsx:14-17 (integer arguments)
nextFrameIndexScrubber(i, n) == IF n <= 0 THEN 0 ELSE JsRem(i + 1, n)

\* TimelineScrubber.tsx:19-22 (integer arguments)
prevFrameIndexScrubber(i, n) == IF n <= 0 THEN 0 ELSE JsRem(i - 1 + n, n)

\* Arguments the model draws: every half from -3 to MaxIndex, and the non-finite ones
IndexInputs == {Half(h) : h \in -6..(2 * MaxIndex)} \cup {JsNaN, PosInf, NegInf}
FrameCountInputs == -1..MaxFrameCount

ClampNotApplied == [applied |-> FALSE, tl |-> Fin(0), mp |-> Fin(0), sc |-> Fin(0),
                    tl2 |-> Fin(0), mp2 |-> Fin(0), sc2 |-> Fin(0)]
CycleNotStarted == [k |-> -1, start |-> 0, tlNext |-> 0, tlPrev |-> 0,
                    scNext |-> 0, scPrev |-> 0]

InitTimelineFixed ==
    /\ tlI = Fin(0)
    /\ tlN = 0
    /\ tlClamp = ClampNotApplied
    /\ tlCyc = CycleNotStarted

InitTimeline ==
    /\ tlI \in IndexInputs
    /\ tlN \in FrameCountInputs
    /\ tlClamp = ClampNotApplied
    /\ tlCyc = CycleNotStarted

\* Each clamp applied to (tlI, tlN), and again to its own result
ApplyClamp ==
    /\ ~tlClamp.applied
    /\ tlClamp' =
         LET a == clampFrameIndex(tlI, tlN)
             b == clamp(tlI, tlN)
             c == clampScrubber(tlI, tlN)
         IN [applied |-> TRUE, tl |-> a, mp |-> b, sc |-> c,
             tl2 |-> clampFrameIndex(a, tlN), mp2 |-> clamp(b, tlN),
             sc2 |-> clampScrubber(c, tlN)]
    /\ UNCHANGED <<tlI, tlN, tlCyc>>
    /\ UNCHANGED notTimeline

\* An integer start index is taken as the start of the four cycles
StartCycle ==
    /\ tlCyc.k = -1
    /\ IsInteger(tlI)
    /\ tlN >= 1
    /\ LET i == tlI.h \div 2
       IN tlCyc' = [k |-> 0, start |-> i, tlNext |-> i, tlPrev |-> i,
                    scNext |-> i, scPrev |-> i]
    /\ UNCHANGED <<tlI, tlN, tlClamp>>
    /\ UNCHANGED notTimeline

\* next / prev applied once more, tlN times in all
StepCycle ==
    /\ tlCyc.k >= 0
    /\ tlCyc.k < tlN
    /\ tlCyc' = [k |-> tlCyc.k + 1, start |-> tlCyc.start,
                 tlNext |-> nextFrameIndex(tlCyc.tlNext, tlN),
                 tlPrev |-> prevFrameIndex(tlCyc.tlPrev, tlN),
                 scNext |-> nextFrameIndexScrubber(tlCyc.scNext, tlN),
                 scPrev |-> prevFrameIndexScrubber(tlCyc.scPrev, tlN)]
    /\ UNCHANGED <<tlI, tlN, tlClamp>>
    /\ UNCHANGED notTimeline

NextTimeline ==
    \/ ApplyClamp
    \/ StartCycle
    \/ StepCycle

-----------------------------------------------------------------------------
(* Maps screen: app/(tabs)/maps.tsx with components/maps/TimelineScrubber  *)
(* React commits a state change (a render), then runs the effects whose    *)
(* dependencies changed; every effect of one pass reads the values of that *)
(* render, and what the effects set is committed after the pass.           *)
(* Opacities are in hundredths; fadeT is elapsed ms out of FADE_DURATION,  *)
(* so baseOpacity and fadeOpacity are in units of 1 / (100 * FADE_DURATION).*)

FADE_DURATION == 280
SCRUB_INTERVAL_MS == 350
FALLBACK_MINUTES_BACK == 60
FALLBACK_STEP_MINUTES == 5

\* Bounds of the screen model
MaxScreenTicks == 2
MaxTileJobs == 2
MaxUserEvents == 2
MaxScreenSteps == 3

\* The clock advances by half a playback interval at a time (a fade is sampled
\* at its start, once on the way, and when it is over)
ScreenClockSteps == {SCRUB_INTERVAL_MS \div 2}

\* A string | null holding a tile url; cb is the number after "cb="
NullUrl == [isNull |-> TRUE, url |-> <<>>, cb |-> 0]
Url(u, cb) == [isNull |-> FALSE, url |-> u, cb |-> cb]

\* radarIem.ts:47-66 (integer arguments); the stamp is the UTC minute, formatted
buildLocalFallbackFramesUTC(minutesBack, stepMinutes, t0) ==
    LET mb == Max(5, minutesBack)
        step == Max(1, stepMinutes)
        count == (mb \div step) + 1
    IN [i \in 1..count |->
           LET m == mb - (i - 1) * step
           IN [iso |-> t0 - m * 60000,
               stamp |-> <<"utc", ToString((t0 \div 60000) - m)>>]]

\* maps.tsx:159-162, built once at mount
fallbackLocalFrames ==
    buildLocalFallbackFramesUTC(FALLBACK_MINUTES_BACK, FALLBACK_STEP_MINUTES, 0)

\* Mutant of activeFrames: the fallback list is never used
activeFrames_NoFallback == rvFrames

\* maps.tsx:197-200
activeFrames == IF Len(rvFrames) > 0 THEN rvFrames ELSE fallbackLocalFrames

\* maps.tsx:202-203
frameCount == Len(activeFrames)
safeFrameIndex == clamp(Fin(mapState.radarTime.frameIndex), frameCount).h \div 2

\* maps.tsx:205
radarEnabled ==
    /\ "radar.reflectivity" \in DOMAIN mapState.layers
    /\ mapState.layers["radar.reflectivity"].hasEnabled
    /\ mapState.layers["radar.reflectivity"].enabled

\* maps.tsx:208-212
radarOpacity ==
    LET l == SpreadLayer(mapState.layers, "radar.reflectivity")
        configured == IF l.hasOpacity THEN l.opacity ELSE 90
    IN IF ~mapState.nerdy THEN Min(100, Max(75, configured))
       ELSE Min(100, Max(55, configured))

\* maps.tsx:216-221; <<>> is null
targetUrlTemplate ==
    IF ~radarEnabled THEN <<>>
    ELSE IF safeFrameIndex + 1 \notin DOMAIN activeFrames THEN <<>>
    ELSE IF activeFrames[safeFrameIndex + 1].stamp = <<>> THEN <<>>
    ELSE <<"__RV__">> \o activeFrames[safeFrameIndex + 1].stamp

\* maps.tsx:301-304
baseOpacity ==
    IF fadeUrl.isNull THEN radarOpacity * FADE_DURATION
    ELSE radarOpacity * (FADE_DURATION - fadeT)

\* maps.tsx:306-309
fadeOpacity == IF fadeUrl.isNull THEN 0 ELSE radarOpacity * fadeT

\* maps.tsx:469-471
onSetFrame(state, frameIndex, n) ==
    mapReducer(state, [type |-> "SET_RADAR_FRAME",
                       frameIndex |-> clamp(Fin(frameIndex), n).h \div 2])

\* Mutant of onSetPlaying: the request is dispatched as it came
onSetPlaying_NoGuard(state, playing, n) ==
    mapReducer(state, [type |-> "SET_RADAR_PLAYING", playing |-> playing])

\* maps.tsx:472-478
onSetPlaying(state, playing, n) ==
    IF playing /\ n < 2
    THEN mapReducer(state, [type |-> "SET_RADAR_PLAYING", playing |-> FALSE])
    ELSE mapReducer(state, [type |-> "SET_RADAR_PLAYING", playing |-> playing])

\* Mutant of CancelFrame: the callback is left scheduled
CancelFrame_Noop(q, ref) == q

\* cancelAnimationFrame(ref) / clearInterval(ref) on the callbacks still scheduled
CancelFrame(q, ref) ==
    IF ref = 0 \/ ref > Len(q) THEN q
    ELSE SubSeq(q, 1, ref - 1) \o SubSeq(q, ref + 1, Len(q))

\* tileUrl.includes('?') ? '&' : '?'  (maps.tsx:240)
JoinOf(tileUrl) == IF \E i \in 1..Len(tileUrl) : tileUrl[i] = "?" THEN "&" ELSE "?"

NoPlayReq == [asked |-> "none", n |-> 0]
PlayReq(playing, n) == [asked |-> IF playing THEN "play" ELSE "pause", n |-> n]

UnsetDep == <<"__unset__">>

\* Mutant of IsCancelled: the result is applied whatever the flag says
IsCancelled_Never(cancelled) == FALSE

\* `if (cancelled) return` after the await: maps.tsx:184, 187, 238, 243
IsCancelled(cancelled) == cancelled

\* Inputs the model draws
ScreenOpacityInputs == {Num(30)}
FrameBodies == {M_good1, M_nohost, M_empty}
TileBodies == {M_good1, M_nohost}

\* The screen after construction, before its first effects have run
InitScreen ==
    /\ sMounted = TRUE
    /\ dirty = TRUE
    /\ sNow = 0
    /\ sTicks = 0
    /\ sEvents = 0
    /\ rvFrames = <<>>
    /\ radarError = ""
    /\ providerLabel = "RainViewer"
    /\ framesJob = "unstarted"
    /\ framesCancelled = FALSE
    /\ tileJobs = <<>>
    /\ resolvedTargetUrl = NullUrl
    /\ baseUrl = NullUrl
    /\ fadeUrl = NullUrl
    /\ fadeT = FADE_DURATION
    /\ animRef = 0
    /\ rafQueue = <<>>
    /\ fadeCleanup = FALSE
    /\ lastTargetDep = UnsetDep
    /\ lastResolvedDep = Url(UnsetDep, 0)
    /\ sIntervals = <<>>
    /\ timerRef = 0
    /\ playReq = NoPlayReq
    /\ lastAsync = "none"

\* What the screen's own steps leave alone in the screen
ScreenFrozen ==
    UNCHANGED <<rvFrames, radarError, providerLabel, framesJob, framesCancelled,
                tileJobs, resolvedTargetUrl, baseUrl, fadeUrl, fadeT, animRef,
                rafQueue, fadeCleanup, lastTargetDep, lastResolvedDep, sIntervals,
                   timerRef>>

\* The clock advances
ScreenTick ==
    /\ sMounted
    /\ ~dirty
    /\ sTicks < MaxScreenTicks
    /\ sTicks + sEvents < MaxScreenSteps
    /\ \E d \in ScreenClockSteps : sNow' = sNow + d
    /\ sTicks' = sTicks + 1
    /\ playReq' = NoPlayReq
    /\ lastAsync' = "none"
    /\ ScreenFrozen
    /\ UNCHANGED <<sMounted, dirty, sEvents, mapState>>
    /\ UNCHANGED notScreen

\* A dispatch from a handler: the reducer's new state is committed
Dispatch(next) ==
    /\ sMounted
    /\ ~dirty
    /\ sEvents < MaxUserEvents
    /\ sTicks + sEvents < MaxScreenSteps
    /\ sEvents' = sEvents + 1
    /\ mapState' = next
    /\ dirty' = TRUE
    /\ ScreenFrozen
    /\ UNCHANGED <<sMounted, sNow, sTicks>>
    /\ UNCHANGED notScreen

\* maps.tsx:383
ToggleNerdy ==
    /\ Dispatch(mapReducer(mapState, [type |-> "SET_NERDY", nerdy |-> ~mapState.nerdy]))
    /\ playReq' = NoPlayReq
    /\ lastAsync' = "none"

\* maps.tsx:494-496: the switch reports its new value
ToggleRadar(b) ==
    /\ b # radarEnabled
    /\ Dispatch(mapReducer(mapState, [type |-> "SET_LAYER_ENABLED",
                                      layerId |-> "radar.reflectivity", enabled |-> b]))
    /\ playReq' = NoPlayReq
    /\ lastAsync' = "none"

\* maps.tsx:503-505
SetRadarOpacity(op) ==
    /\ Dispatch(mapReducer(mapState, [type |-> "SET_LAYER_OPACITY",
                                      layerId |-> "radar.reflectivity", opacity |-> op]))
    /\ playReq' = NoPlayReq
    /\ lastAsync' = "none"

\* TimelineScrubber.tsx:140-143, the ◀ button
PressPrev ==
    /\ frameCount >= 1
    /\ Dispatch(onSetFrame(mapState, prevFrameIndexScrubber(safeFrameIndex, frameCount),
                           frameCount))
    /\ playReq' = NoPlayReq
    /\ lastAsync' = "none"

\* TimelineScrubber.tsx:146-149, the ▶ button
PressNext ==
    /\ frameCount >= 1
    /\ Dispatch(onSetFrame(mapState, nextFrameIndexScrubber(safeFrameIndex, frameCount),
                           frameCount))
    /\ playReq' = NoPlayReq
    /\ lastAsync' = "none"

\* maps.tsx:472-478, the callback called with either value
OnSetPlaying(b) ==
    /\ Dispatch(onSetPlaying(mapState, b, frameCount))
    /\ playReq' = PlayReq(b, frameCount)
    /\ lastAsync' = "none"

\* TimelineScrubber.tsx:108-110: the interval fires with the idx and frameCount
\* of the render that armed it
PlaybackTick(k) ==
    /\ k \in DOMAIN sIntervals
    /\ sNow >= sIntervals[k].due
    /\ sMounted
    /\ ~dirty
    /\ mapState' = onSetFrame(mapState,
                              nextFrameIndexScrubber(sIntervals[k].idx, sIntervals[k].n),
                              sIntervals[k].n)
    /\ dirty' = TRUE
    /\ sIntervals' = [sIntervals EXCEPT ![k].due = sIntervals[k].due + SCRUB_INTERVAL_MS]
    /\ UNCHANGED timerRef
    /\ playReq' = NoPlayReq
    /\ lastAsync' = "none"
    /\ UNCHANGED <<rvFrames, radarError, providerLabel, framesJob, framesCancelled,
                   tileJobs, resolvedTargetUrl, baseUrl, fadeUrl, fadeT, animRef,
                   rafQueue, fadeCleanup, lastTargetDep, lastResolvedDep>>
    /\ UNCHANGED <<sMounted, sNow, sTicks, sEvents>>
    /\ UNCHANGED notScreen

\* maps.tsx:178-195: fetchRainViewerFrames settles
FramesArrive ==
    /\ framesJob = "pending"
    /\ ~dirty \/ framesCancelled
    /\ framesJob' = "done"
    /\ \/ /\ IsCancelled(framesCancelled)
          /\ UNCHANGED <<rvFrames, radarError, dirty>>
       \/ /\ ~IsCancelled(framesCancelled)
          /\ \E d \in FrameBodies :
                rvFrames' = fetchRainViewerFrames(d)
          /\ dirty' = TRUE
          /\ UNCHANGED radarError
       \/ /\ ~IsCancelled(framesCancelled)
          /\ radarError' = "RainViewer maps.json failed"
          /\ rvFrames' = <<>>
          /\ dirty' = TRUE
    /\ playReq' = NoPlayReq
    /\ lastAsync' = IF IsCancelled(framesCancelled) THEN "frames discarded"
                    ELSE "frames applied"
    /\ UNCHANGED <<providerLabel, framesCancelled, tileJobs, resolvedTargetUrl,
                   baseUrl, fadeUrl, fadeT, animRef, rafQueue, fadeCleanup,
                   lastTargetDep, lastResolvedDep, sIntervals,
                   timerRef>>
    /\ UNCHANGED <<sMounted, sNow, sTicks, sEvents, mapState>>
    /\ UNCHANGED notScreen

\* maps.tsx:234-247: the awaited buildRainViewerTileUrlForFrame of job j settles
TileJobDone(j) ==
    /\ j \in DOMAIN tileJobs
    /\ ~dirty \/ tileJobs[j].cancelled
    /\ tileJobs' = SubSeq(tileJobs, 1, j - 1) \o SubSeq(tileJobs, j + 1, Len(tileJobs))
    /\ \/ /\ IsCancelled(tileJobs[j].cancelled)
          /\ UNCHANGED <<resolvedTargetUrl, radarError, providerLabel, dirty>>
       \/ /\ ~IsCancelled(tileJobs[j].cancelled)
          /\ \E d \in TileBodies :
               LET r == buildRainViewerTileUrlForFrame(d, tileJobs[j].framePath)
               IN IF r.kind = "tile"
                  THEN /\ providerLabel' = "RainViewer"
                       /\ resolvedTargetUrl' =
                             Url(r.tileUrl \o <<JoinOf(r.tileUrl), "cb=">>, sNow)
                       /\ UNCHANGED radarError
                  ELSE /\ radarError' = r.err
                       /\ resolvedTargetUrl' = NullUrl
                       /\ UNCHANGED providerLabel
          /\ dirty' = (resolvedTargetUrl' # resolvedTargetUrl \/ radarError' # radarError)
    /\ playReq' = NoPlayReq
    /\ lastAsync' = IF IsCancelled(tileJobs[j].cancelled) THEN "tile discarded"
                    ELSE "tile applied"
    /\ UNCHANGED <<rvFrames, framesJob, framesCancelled, baseUrl, fadeUrl, fadeT,
                   animRef, rafQueue, fadeCleanup, lastTargetDep, lastResolvedDep, sIntervals,
                   timerRef>>
    /\ UNCHANGED <<sMounted, sNow, sTicks, sEvents, mapState>>
    /\ UNCHANGED notScreen

\* maps.tsx:279-290: the requested animation frame k runs `tick`
RafTick(k) ==
    /\ k \in DOMAIN rafQueue
    /\ ~dirty
    /\ LET c == rafQueue[k]
           rest == CancelFrame(rafQueue, k)
       IN IF sNow - c.start >= FADE_DURATION
          THEN /\ baseUrl' = IF sMounted THEN c.url ELSE baseUrl
               /\ fadeUrl' = IF sMounted THEN NullUrl ELSE fadeUrl
               /\ fadeT' = IF sMounted THEN FADE_DURATION ELSE fadeT
               /\ animRef' = 0
               /\ rafQueue' = rest
          ELSE /\ fadeT' = IF sMounted THEN sNow - c.start ELSE fadeT
               /\ rafQueue' = Append(rest, c)
               /\ animRef' = Len(rest) + 1
               /\ UNCHANGED <<baseUrl, fadeUrl>>
    /\ dirty' = (baseUrl' # baseUrl \/ fadeUrl' # fadeUrl \/ fadeT' # fadeT)
    /\ playReq' = NoPlayReq
    /\ lastAsync' = "none"
    /\ UNCHANGED <<rvFrames, radarError, providerLabel, framesJob, framesCancelled,
                   tileJobs, resolvedTargetUrl, fadeCleanup, lastTargetDep,
                   lastResolvedDep, sIntervals,
                   timerRef>>
    /\ UNCHANGED <<sMounted, sNow, sTicks, sEvents, mapState>>
    /\ UNCHANGED notScreen

\* One pass of effects after a committed render.  In order: the scrubber's timer
\* effect (TimelineScrubber.tsx:95-118, whose callback dependencies are new on
\* every render), then the screen's mount effect (maps.tsx:109-116), frames effect
\* (178-195), tile-url effect (225-256), first-base effect (263-267) and crossfade
\* effect (269-299).
RunEffects ==
    /\ sMounted
    /\ dirty
    /\ LET first == framesJob = "unstarted"
           playing == mapState.radarTime.playing
           stopPlaying == playing /\ frameCount < 2
           enableRadar == first /\ ~radarEnabled
           st1 == IF stopPlaying THEN onSetPlaying(mapState, FALSE, frameCount)
                  ELSE mapState
           st2 == IF enableRadar
                  THEN mapReducer(
                           mapReducer(st1, [type |-> "SET_LAYER_ENABLED",
                                            layerId |-> "radar.reflectivity",
                                            enabled |-> TRUE]),
                           [type |-> "SET_LAYER_OPACITY",
                            layerId |-> "radar.reflectivity", opacity |-> Num(90)])
                  ELSE st1
           clearedTimers == CancelFrame(sIntervals, timerRef)
           target == targetUrlTemplate
           resolved == resolvedTargetUrl
           tileRuns == first \/ target # lastTargetDep
           fadeRuns == first \/ resolved # lastResolvedDep
           cancelledJobs ==
               [j \in DOMAIN tileJobs |-> [tileJobs[j] EXCEPT !.cancelled = TRUE]]
           startsFade == fadeRuns /\ ~resolved.isNull /\ baseUrl # resolved
           q1 == IF fadeRuns /\ fadeCleanup THEN CancelFrame(rafQueue, animRef)
                 ELSE rafQueue
           ref1 == IF fadeRuns /\ fadeCleanup THEN 0 ELSE animRef
       IN /\ (tileRuns /\ target # <<>>) => Len(tileJobs) < MaxTileJobs
          /\ mapState' = st2
          /\ playReq' = IF stopPlaying THEN PlayReq(FALSE, frameCount) ELSE NoPlayReq
          /\ lastAsync' = "none"
          /\ sIntervals' = IF playing /\ frameCount >= 2
                           THEN Append(clearedTimers,
                                       [idx |-> safeFrameIndex, n |-> frameCount,
                                        due |-> sNow + SCRUB_INTERVAL_MS])
                           ELSE clearedTimers
          /\ timerRef' = IF playing /\ frameCount >= 2 THEN Len(clearedTimers) + 1 ELSE 0
          /\ framesJob' = IF first THEN "pending" ELSE framesJob
          /\ radarError' = IF first THEN "" ELSE radarError
          /\ tileJobs' =
                IF ~tileRuns THEN tileJobs
                ELSE IF target = <<>> \/ Head(target) # "__RV__" THEN cancelledJobs
                ELSE Append(cancelledJobs,
                            [framePath |-> Tail(target), cancelled |-> FALSE])
          /\ resolvedTargetUrl' =
                IF tileRuns /\ target = <<>> THEN NullUrl
                ELSE IF tileRuns /\ Head(target) # "__RV__" THEN Url(target, 0)
                ELSE resolved
          /\ lastTargetDep' = target
          /\ baseUrl' = IF fadeRuns /\ ~resolved.isNull /\ baseUrl.isNull
                        THEN resolved ELSE baseUrl
          /\ fadeUrl' = IF startsFade THEN resolved ELSE fadeUrl
          /\ fadeT' = IF startsFade THEN 0 ELSE fadeT
          /\ rafQueue' = IF startsFade
                         THEN Append(CancelFrame(q1, ref1),
                                     [url |-> resolved, start |-> sNow])
                         ELSE q1
          /\ animRef' = IF startsFade THEN Len(CancelFrame(q1, ref1)) + 1 ELSE ref1
          /\ fadeCleanup' = IF fadeRuns THEN startsFade ELSE fadeCleanup
          /\ lastResolvedDep' = resolved
          /\ dirty' = \/ stopPlaying
                      \/ enableRadar
                      \/ resolvedTargetUrl' # resolved
                      \/ baseUrl' # baseUrl
                      \/ fadeUrl' # fadeUrl
                      \/ fadeT' # fadeT
                      \/ radarError' # radarError
    /\ UNCHANGED <<rvFrames, providerLabel, framesCancelled>>
    /\ UNCHANGED <<sMounted, sNow, sTicks, sEvents>>
    /\ UNCHANGED notScreen

\* The screen unmounts: every effect's cleanup runs and the component's state
\* is discarded (it reads as it did at construction)
Unmount ==
    /\ sMounted
    /\ ~dirty
    /\ sMounted' = FALSE
    /\ dirty' = FALSE
    /\ framesCancelled' = TRUE
    /\ tileJobs' = [j \in DOMAIN tileJobs |-> [tileJobs[j] EXCEPT !.cancelled = TRUE]]
    /\ rafQueue' = IF fadeCleanup THEN CancelFrame(rafQueue, animRef) ELSE rafQueue
    /\ animRef' = IF fadeCleanup THEN 0 ELSE animRef
    /\ fadeCleanup' = FALSE
    /\ sIntervals' = CancelFrame(sIntervals, timerRef)
    /\ timerRef' = 0
    /\ playReq' = NoPlayReq
    /\ lastAsync' = "none"
    /\ mapState' = createInitialMapState("radar", FALSE, DefaultViewport)
    /\ rvFrames' = <<>>
    /\ radarError' = ""
    /\ providerLabel' = "RainViewer"
    /\ resolvedTargetUrl' = NullUrl
    /\ baseUrl' = NullUrl
    /\ fadeUrl' = NullUrl
    /\ fadeT' = FADE_DURATION
    /\ lastTargetDep' = UnsetDep
    /\ lastResolvedDep' = Url(UnsetDep, 0)
    /\ UNCHANGED <<framesJob, sNow, sTicks, sEvents>>
    /\ UNCHANGED notScreen

NextScreen ==
    \/ ScreenTick
    \/ ToggleNerdy
    \/ \E b \in BOOLEAN : ToggleRadar(b)
    \/ \E op \in ScreenOpacityInputs : SetRadarOpacity(op)
    \/ PressPrev
    \/ PressNext
    \/ \E b \in BOOLEAN : OnSetPlaying(b)
    \/ \E k \in DOMAIN sIntervals : PlaybackTick(k)
    \/ FramesArrive
    \/ \E j \in DOMAIN tileJobs : TileJobDone(j)
    \/ \E k \in DOMAIN rafQueue : RafTick(k)
    \/ RunEffects
    \/ Unmount

-----------------------------------------------------------------------------
(* Dual-slot animated radar hook: app/lib/maps/radar/useAnimatedRadar.ts,   *)
(* used by app/maplibre-test.tsx with the IEM frames of RadarOverlay.tsx.  *)
(* opacityA and opacityB are in units of 1 / (100 * FADE_STEPS), so that    *)
(* opacity * (1 - i / steps) is the integer opacity * (FADE_STEPS - i).     *)
(* A timer callback closes over the values of the render that created it.   *)

FADE_STEPS == 10

\* Bound of the hook model: host inputs (renders, presses) handled
MaxHookEvents == 2

\* RadarOverlay.tsx:46-54
IEM_FRAMES == <<"latest", "m05m", "m10m", "m15m", "m20m", "m25m", "m30m">>

\* RadarOverlay.tsx:56-61
iemFrameTemplate(frame) ==
    IF frame = "latest"
    THEN <<"https://mesonet.agron.iastate.edu/cache/tile.py/1.0.0/nexrad-n0q-900913",
           "/{z}/{x}/{y}.png">>
    ELSE <<"https://mesonet.agron.iastate.edu/cache/tile.py/1.0.0/nexrad-n0q-900913",
           "-", frame, "/{z}/{x}/{y}.png">>

\* frames[i] ?? 'latest', for a 0-based i
FrameAt(i) == IF i + 1 \in DOMAIN IEM_FRAMES THEN IEM_FRAMES[i + 1] ELSE "latest"

\* useAnimatedRadar.ts:51-54
nextFrame == FrameAt(JsRem(hFrameIndex + 1, Len(IEM_FRAMES)))

\* The dependency list of the playback effect (useAnimatedRadar.ts:130)
PlayDeps == <<hIsPlaying, hFront, nextFrame, hSpeedMs, Len(IEM_FRAMES)>>
NoDeps == <<FALSE, "", "", 0, 0>>

\* Inputs the model draws
HookOpacityInputs == {75, 50}
HookJumpInputs == {0, 3}
HookSpeedInputs == {800, 1500}

\* useAnimatedRadar.ts:24-37 with the options of maplibre-test.tsx:34-39
InitHook ==
    /\ hMounted = TRUE
    /\ hDirty = TRUE
    /\ hEvents = 0
    /\ hOpacity = 75
    /\ hFrameIndex = 0
    /\ hFront = "A"
    /\ hIsPlaying = TRUE
    /\ hSpeedMs = 1500
    /\ hOpacityA = 75 * FADE_STEPS
    /\ hOpacityB = 0
    /\ hTemplateA = iemFrameTemplate(FrameAt(0))
    /\ hTemplateB = iemFrameTemplate(FrameAt(1))
    /\ hFades = <<>>
    /\ hFadeTimer = 0
    /\ hIntervals = <<>>
    /\ hOwned = 0
    /\ hLastOpacityDep = -1
    /\ hLastPlayDeps = NoDeps

\* Mutant of crossfade: the running fade interval is not cleared
crossfade_NoCancel(direction, opacity) ==
    [fades |-> Append(hFades, [dir |-> direction, i |-> 0, opacity |-> opacity]),
     ref |-> Len(hFades) + 1]

\* useAnimatedRadar.ts:56-64: crossfade(direction) called from a closure that
\* captured `opacity`; yields the fade intervals and fadeTimer.current
crossfade(direction, opacity) ==
    LET rest == CancelFrame(hFades, hFadeTimer)
    IN [fades |-> Append(rest, [dir |-> direction, i |-> 0, opacity |-> opacity]),
        ref |-> Len(rest) + 1]

\* The host renders the hook with another `opacity` option
HookRender(op) ==
    /\ hMounted
    /\ ~hDirty
    /\ hEvents < MaxHookEvents
    /\ op # hOpacity
    /\ hOpacity' = op
    /\ hDirty' = TRUE
    /\ hEvents' = hEvents + 1
    /\ UNCHANGED <<hMounted, hFrameIndex, hFront, hIsPlaying, hSpeedMs, hOpacityA,
                   hOpacityB, hTemplateA, hTemplateB, hFades, hFadeTimer, hIntervals,
                   hOwned, hLastOpacityDep, hLastPlayDeps>>
    /\ UNCHANGED notHook

\* useAnimatedRadar.ts:90-108
HookJumpTo(targetIndex) ==
    /\ hMounted
    /\ ~hDirty
    /\ hEvents < MaxHookEvents
    /\ Len(IEM_FRAMES) # 0
    /\ LET len == Len(IEM_FRAMES)
           idx == JsRem(JsRem(targetIndex, len) + len, len)
           tpl == iemFrameTemplate(FrameAt(idx))
           cf == crossfade(IF hFront = "A" THEN "AtoB" ELSE "BtoA", hOpacity)
       IN /\ hTemplateB' = IF hFront = "A" THEN tpl ELSE hTemplateB
          /\ hTemplateA' = IF hFront = "A" THEN hTemplateA ELSE tpl
          /\ hFades' = cf.fades
          /\ hFadeTimer' = cf.ref
          /\ hFrameIndex' = idx
    /\ hDirty' = TRUE
    /\ hEvents' = hEvents + 1
    /\ UNCHANGED <<hMounted, hOpacity, hFront, hIsPlaying, hSpeedMs, hOpacityA,
                   hOpacityB, hIntervals, hOwned, hLastOpacityDep, hLastPlayDeps>>
    /\ UNCHANGED notHook

\* maplibre-test.tsx:77-81
HookSetIsPlaying ==
    /\ hMounted
    /\ ~hDirty
    /\ hEvents < MaxHookEvents
    /\ hIsPlaying' = ~hIsPlaying
    /\ hDirty' = TRUE
    /\ hEvents' = hEvents + 1
    /\ UNCHANGED <<hMounted, hOpacity, hFrameIndex, hFront, hSpeedMs, hOpacityA,
                   hOpacityB, hTemplateA, hTemplateB, hFades, hFadeTimer, hIntervals,
                   hOwned, hLastOpacityDep, hLastPlayDeps>>
    /\ UNCHANGED notHook

\* maplibre-test.tsx:83-97
HookSetSpeedMs(ms) ==
    /\ hMounted
    /\ ~hDirty
    /\ hEvents < MaxHookEvents
    /\ ms # hSpeedMs
    /\ hSpeedMs' = ms
    /\ hDirty' = TRUE
    /\ hEvents' = hEvents + 1
    /\ UNCHANGED <<hMounted, hOpacity, hFrameIndex, hFront, hIsPlaying, hOpacityA,
                   hOpacityB, hTemplateA, hTemplateB, hFades, hFadeTimer, hIntervals,
                   hOwned, hLastOpacityDep, hLastPlayDeps>>
    /\ UNCHANGED notHook

\* useAnimatedRadar.ts:114-126: playback interval k fires, with the front,
\* nextFrame and crossfade of the render whose effect armed it
HookPlaybackTick(k) ==
    /\ k \in DOMAIN hIntervals
    /\ hMounted
    /\ ~hDirty
    /\ LET c == hIntervals[k]
           tpl == iemFrameTemplate(c.nextFrame)
           cf == crossfade(IF c.front = "A" THEN "AtoB" ELSE "BtoA", c.opacity)
       IN /\ hTemplateB' = IF c.front = "A" THEN tpl ELSE hTemplateB
          /\ hTemplateA' = IF c.front = "A" THEN hTemplateA ELSE tpl
          /\ hFades' = cf.fades
          /\ hFadeTimer' = cf.ref
    /\ hFrameIndex' = JsRem(hFrameIndex + 1, Len(IEM_FRAMES))
    /\ hDirty' = TRUE
    /\ UNCHANGED <<hMounted, hEvents, hOpacity, hFront, hIsPlaying, hSpeedMs, hOpacityA,
                   hOpacityB, hIntervals, hOwned, hLastOpacityDep, hLastPlayDeps>>
    /\ UNCHANGED notHook

\* useAnimatedRadar.ts:64-87: fade interval k fires
HookFadeTick(k) ==
    /\ k \in DOMAIN hFades
    /\ hMounted
    /\ ~hDirty
    /\ LET f == hFades[k]
           i == f.i + 1
           stepped == [hFades EXCEPT ![k].i = i]
           done == i >= FADE_STEPS
       IN /\ hOpacityA' = IF f.dir = "AtoB" THEN f.opacity * (FADE_STEPS - i)
                          ELSE f.opacity * i
          /\ hOpacityB' = IF f.dir = "AtoB" THEN f.opacity * i
                          ELSE f.opacity * (FADE_STEPS - i)
          /\ hFront' = IF ~done THEN hFront
                       ELSE IF f.dir = "AtoB" THEN "B" ELSE "A"
          /\ hFades' = IF done THEN CancelFrame(stepped, hFadeTimer) ELSE stepped
          /\ hFadeTimer' = IF done THEN 0 ELSE hFadeTimer
    /\ hDirty' = (hOpacityA' # hOpacityA \/ hOpacityB' # hOpacityB \/ hFront' # hFront)
    /\ UNCHANGED <<hMounted, hEvents, hOpacity, hFrameIndex, hIsPlaying, hSpeedMs,
                   hTemplateA, hTemplateB, hIntervals, hOwned, hLastOpacityDep,
                   hLastPlayDeps>>
    /\ UNCHANGED notHook

\* One pass of effects after a committed render: the opacity effect
\* (useAnimatedRadar.ts:40-49) and the playback effect (110-130)
HookRunEffects ==
    /\ hMounted
    /\ hDirty
    /\ LET first == hLastOpacityDep = -1
           opacityRuns == first \/ hOpacity # hLastOpacityDep
           playRuns == first \/ PlayDeps # hLastPlayDeps
           cleared == CancelFrame(hIntervals, hOwned)
           arms == hIsPlaying /\ Len(IEM_FRAMES) >= 2
       IN /\ hOpacityA' = IF ~opacityRuns THEN hOpacityA
                          ELSE IF hFront = "A" THEN hOpacity * FADE_STEPS ELSE 0
          /\ hOpacityB' = IF ~opacityRuns THEN hOpacityB
                          ELSE IF hFront = "A" THEN 0 ELSE hOpacity * FADE_STEPS
          /\ hIntervals' = IF ~playRuns THEN hIntervals
                           ELSE IF arms
                           THEN Append(cleared, [front |-> hFront, nextFrame |-> nextFrame,
                                                 opacity |-> hOpacity,
                                                 speedMs |-> hSpeedMs])
                           ELSE cleared
          /\ hOwned' = IF ~playRuns THEN hOwned
                       ELSE IF arms THEN Len(cleared) + 1 ELSE 0
    /\ hLastOpacityDep' = hOpacity
    /\ hLastPlayDeps' = PlayDeps
    /\ hDirty' = (hOpacityA' # hOpacityA \/ hOpacityB' # hOpacityB)
    /\ UNCHANGED <<hMounted, hEvents, hOpacity, hFrameIndex, hFront, hIsPlaying, hSpeedMs,
                   hTemplateA, hTemplateB, hFades, hFadeTimer>>
    /\ UNCHANGED notHook

\* Mutant of HookUnmount: the fade timer is not cleared on unmount
HookUnmount_NoFadeCleanup ==
    /\ hMounted
    /\ ~hDirty
    /\ hMounted' = FALSE
    /\ hIntervals' = CancelFrame(hIntervals, hOwned)
    /\ hOwned' = 0
    /\ hFades' = hFades
    /\ hOpacity' = 75
    /\ hFrameIndex' = 0
    /\ hFront' = "A"
    /\ hIsPlaying' = TRUE
    /\ hSpeedMs' = 1500
    /\ hOpacityA' = 75 * FADE_STEPS
    /\ hOpacityB' = 0
    /\ hTemplateA' = iemFrameTemplate(FrameAt(0))
    /\ hTemplateB' = iemFrameTemplate(FrameAt(1))
    /\ hLastOpacityDep' = -1
    /\ hLastPlayDeps' = NoDeps
    /\ UNCHANGED <<hDirty, hEvents, hFadeTimer>>
    /\ UNCHANGED notHook

\* The host unmounts: the playback effect's cleanup (useAnimatedRadar.ts:128) and
\* the fade-timer cleanup (133-137) run, and the hook's state is discarded
HookUnmount ==
    /\ hMounted
    /\ ~hDirty
    /\ hMounted' = FALSE
    /\ hIntervals' = CancelFrame(hIntervals, hOwned)
    /\ hOwned' = 0
    /\ hFades' = CancelFrame(hFades, hFadeTimer)
    /\ hOpacity' = 75
    /\ hFrameIndex' = 0
    /\ hFront' = "A"
    /\ hIsPlaying' = TRUE
    /\ hSpeedMs' = 1500
    /\ hOpacityA' = 75 * FADE_STEPS
    /\ hOpacityB' = 0
    /\ hTemplateA' = iemFrameTemplate(FrameAt(0))
    /\ hTemplateB' = iemFrameTemplate(FrameAt(1))
    /\ hLastOpacityDep' = -1
    /\ hLastPlayDeps' = NoDeps
    /\ UNCHANGED <<hDirty, hEvents, hFadeTimer>>
    /\ UNCHANGED notHook

NextHook ==
    \/ \E op \in HookOpacityInputs : HookRender(op)
    \/ \E t \in HookJumpInputs : HookJumpTo(t)
    \/ HookSetIsPlaying
    \/ \E ms \in HookSpeedInputs : HookSetSpeedMs(ms)
    \/ \E k \in DOMAIN hIntervals : HookPlaybackTick(k)
    \/ \E k \in DOMAIN hFades : HookFadeTick(k)
    \/ HookRunEffects
    \/ HookUnmount

-----------------------------------------------------------------------------
(* Nearest radar site: app/lib/maps/resolveNearestRadar.ts, getLocalRadarId.ts *)
(* Coordinates are whole degrees, as JavaScript numbers. Distances are in      *)
(* metres and bearings in thousandths of a degree. Math.sin, Math.cos and      *)
(* Math.atan2 have no integer counterpart, so haversineKm and bearingDeg are    *)
(* tabulated on the points and sites of the model: each entry is the IEEE-754   *)
(* double evaluation of the source's expression, rounded to the unit. Where     *)
(* the site is the exact antipode of the point at latitude 12, the sum `a` of  *)
(* line 40-42 rounds to 1.0000000000000002, Math.sqrt(1 - a) is NaN, and so     *)
(* are `c` and the distance.                                                    *)

LOCAL_MAX_DISTANCE_KM == 300

\* Bound of the resolver model: the longest registry
MaxSites == 2

Undefined == [kind |-> "undef", h |-> 0]

\* resolveNearestRadar.ts:67-69
isFiniteNumber(x) == x.kind = "fin"

\* nexradSites.ts:3-16, the fields the resolver reads
NexradSite(id, lat, lon) == [id |-> id, lat |-> Fin(lat), lon |-> Fin(lon)]

\* Sites a registry of the model is made of: two at the same distance from
\* any point on the equator at longitude 0, and one a quarter turn east
SitePool ==
    {NexradSite("KNTH", 12, 0), NexradSite("KSTH", -12, 0), NexradSite("KEST", 0, 90)}

NoSite == [id |-> "", lat |-> Fin(0), lon |-> Fin(0)]

\* resolveNearestRadar.ts:34-46, in metres
HaversineTable ==
    <<-12, -180, 12, 0>> :> JsNaN @@ <<-12, -180, -12, 0>> :> Fin(17346409) @@
    <<-12, -180, 0, 90>> :> Fin(10007543) @@ <<-12, 0, 12, 0>> :> Fin(2668678) @@
    <<-12, 0, -12, 0>> :> Fin(0) @@ <<-12, 0, 0, 90>> :> Fin(10007543) @@
    <<-12, 90, 12, 0>> :> Fin(10283030) @@ <<-12, 90, -12, 0>> :> Fin(9732057) @@
    <<-12, 90, 0, 90>> :> Fin(1334339) @@ <<-12, 180, 12, 0>> :> JsNaN @@
    <<-12, 180, -12, 0>> :> Fin(17346409) @@ <<-12, 180, 0, 90>> :> Fin(10007543) @@
    <<0, -180, 12, 0>> :> Fin(18680748) @@ <<0, -180, -12, 0>> :> Fin(18680748) @@
    <<0, -180, 0, 90>> :> Fin(10007543) @@ <<0, 0, 12, 0>> :> Fin(1334339) @@
    <<0, 0, -12, 0>> :> Fin(1334339) @@ <<0, 0, 0, 90>> :> Fin(10007543) @@
    <<0, 90, 12, 0>> :> Fin(10007543) @@ <<0, 90, -12, 0>> :> Fin(10007543) @@
    <<0, 90, 0, 90>> :> Fin(0) @@ <<0, 180, 12, 0>> :> Fin(18680748) @@
    <<0, 180, -12, 0>> :> Fin(18680748) @@ <<0, 180, 0, 90>> :> Fin(10007543) @@
    <<12, -180, 12, 0>> :> Fin(17346409) @@ <<12, -180, -12, 0>> :> JsNaN @@
    <<12, -180, 0, 90>> :> Fin(10007543) @@ <<12, 0, 12, 0>> :> Fin(0) @@
    <<12, 0, -12, 0>> :> Fin(2668678) @@ <<12, 0, 0, 90>> :> Fin(10007543) @@
    <<12, 90, 12, 0>> :> Fin(9732057) @@ <<12, 90, -12, 0>> :> Fin(10283030) @@
    <<12, 90, 0, 90>> :> Fin(1334339) @@ <<12, 180, 12, 0>> :> Fin(17346409) @@
    <<12, 180, -12, 0>> :> JsNaN @@ <<12, 180, 0, 90>> :> Fin(10007543) @@
    <<90, -180, 12, 0>> :> Fin(8673204) @@ <<90, -180, -12, 0>> :> Fin(11341883) @@
    <<90, -180, 0, 90>> :> Fin(10007543) @@ <<90, 0, 12, 0>> :> Fin(8673204) @@
    <<90, 0, -12, 0>> :> Fin(11341883) @@ <<90, 0, 0, 90>> :> Fin(10007543) @@
    <<90, 90, 12, 0>> :> Fin(8673204) @@ <<90, 90, -12, 0>> :> Fin(11341883) @@
    <<90, 90, 0, 90>> :> Fin(10007543) @@ <<90, 180, 12, 0>> :> Fin(8673204) @@
    <<90, 180, -12, 0>> :> Fin(11341883) @@ <<90, 180, 0, 90>> :> Fin(10007543)

haversineKm(lat1, lon1, lat2, lon2) == HaversineTable[<<lat1, lon1, lat2, lon2>>]

\* resolveNearestRadar.ts:51-65, in thousandths of a degree
BearingTable ==
    <<-12, -180, 12, 0>> :> 90000 @@ <<-12, -180, -12, 0>> :> 180000 @@
    <<-12, -180, 0, 90>> :> 270000 @@ <<-12, 0, 12, 0>> :> 0 @@
    <<-12, 0, -12, 0>> :> 0 @@ <<-12, 0, 0, 90>> :> 90000 @@
    <<-12, 90, 12, 0>> :> 281745 @@ <<-12, 90, -12, 0>> :> 258254 @@
    <<-12, 90, 0, 90>> :> 0 @@ <<-12, 180, 12, 0>> :> 270000 @@
    <<-12, 180, -12, 0>> :> 180000 @@ <<-12, 180, 0, 90>> :> 270000 @@
    <<0, -180, 12, 0>> :> 0 @@ <<0, -180, -12, 0>> :> 180000 @@
    <<0, -180, 0, 90>> :> 270000 @@ <<0, 0, 12, 0>> :> 0 @@
    <<0, 0, -12, 0>> :> 180000 @@ <<0, 0, 0, 90>> :> 90000 @@
    <<0, 90, 12, 0>> :> 282000 @@ <<0, 90, -12, 0>> :> 258000 @@
    <<0, 90, 0, 90>> :> 0 @@ <<0, 180, 12, 0>> :> 359999 @@
    <<0, 180, -12, 0>> :> 180000 @@ <<0, 180, 0, 90>> :> 270000 @@
    <<12, -180, 12, 0>> :> 0 @@ <<12, -180, -12, 0>> :> 90000 @@
    <<12, -180, 0, 90>> :> 270000 @@ <<12, 0, 12, 0>> :> 0 @@
    <<12, 0, -12, 0>> :> 180000 @@ <<12, 0, 0, 90>> :> 90000 @@
    <<12, 90, 12, 0>> :> 281745 @@ <<12, 90, -12, 0>> :> 258254 @@
    <<12, 90, 0, 90>> :> 180000 @@ <<12, 180, 12, 0>> :> 0 @@
    <<12, 180, -12, 0>> :> 270000 @@ <<12, 180, 0, 90>> :> 270000 @@
    <<90, -180, 12, 0>> :> 0 @@ <<90, -180, -12, 0>> :> 0 @@
    <<90, -180, 0, 90>> :> 270000 @@ <<90, 0, 12, 0>> :> 180000 @@
    <<90, 0, -12, 0>> :> 180000 @@ <<90, 0, 0, 90>> :> 90000 @@
    <<90, 90, 12, 0>> :> 270000 @@ <<90, 90, -12, 0>> :> 270000 @@
    <<90, 90, 0, 90>> :> 180000 @@ <<90, 180, 12, 0>> :> 0 @@
    <<90, 180, -12, 0>> :> 0 @@ <<90, 180, 0, 90>> :> 270000

bearingDeg(lat1, lon1, lat2, lon2) == BearingTable[<<lat1, lon1, lat2, lon2>>]

\* A number held as a whole degree count
Deg(x) == x.h \div 2

\* Mutant of DistanceLess: d <= bestDistanceKm
DistanceLess_OrEqual(d, best) == d.kind # "nan" /\ ~JsLess(best, d)

\* d < bestDistanceKm (resolveNearestRadar.ts:90): false when d is NaN
DistanceLess(d, best) == d.kind # "nan" /\ JsLess(d, best)

\* bestDistanceKm > maxDistanceKm (resolveNearestRadar.ts:97), both finite
DistanceExceeds(best, maxKm) == best.h > maxKm.h * 1000

\* The state of the scan before the loop: resolveNearestRadar.ts:81-82
NoBest == [hasSite |-> FALSE, site |-> NoSite, distanceKm |-> PosInf]

\* The loop of resolveNearestRadar.ts:84-94, from position i of the registry
RECURSIVE ScanSites(_, _, _, _, _, _)
ScanSites(registry, i, lat, lon, filter, best) ==
    IF i > Len(registry) THEN best
    ELSE LET s == registry[i]
         IN IF ~isFiniteNumber(s.lat) \/ ~isFiniteNumber(s.lon)
            THEN ScanSites(registry, i + 1, lat, lon, filter, best)
            ELSE IF filter.present /\ s.id \notin filter.accepts
            THEN ScanSites(registry, i + 1, lat, lon, filter, best)
            ELSE LET d == haversineKm(Deg(lat), Deg(lon), Deg(s.lat), Deg(s.lon))
                 IN IF DistanceLess(d, best.distanceKm)
                    THEN ScanSites(registry, i + 1, lat, lon, filter,
                                   [hasSite |-> TRUE, site |-> s, distanceKm |-> d])
                    ELSE ScanSites(registry, i + 1, lat, lon, filter, best)

NullResult ==
    [isNull |-> TRUE, site |-> NoSite, distanceKm |-> Fin(0), distanceMi |-> Fin(0),
     bearingDeg |-> 0]

\* resolveNearestRadar.ts:71-107. distanceMi is kept as its factor: the
\* result's distanceKm times 0.621371
resolveNearestRadar(lat, lon, opts, registry) ==
    IF ~isFiniteNumber(lat) \/ ~isFiniteNumber(lon) THEN NullResult
    ELSE IF Deg(lat) < -90 \/ Deg(lat) > 90 \/ Deg(lon) < -180 \/ Deg(lon) > 180
    THEN NullResult
    ELSE LET best == ScanSites(registry, 1, lat, lon, opts.filter, NoBest)
         IN IF ~best.hasSite \/ ~IsFinite(best.distanceKm) THEN NullResult
            ELSE IF isFiniteNumber(opts.maxDistanceKm)
                    /\ DistanceExceeds(best.distanceKm, opts.maxDistanceKm)
            THEN NullResult
            ELSE [isNull |-> FALSE,
                  site |-> best.site,
                  distanceKm |-> best.distanceKm,
                  distanceMi |-> best.distanceKm,
                  bearingDeg |-> bearingDeg(Deg(lat), Deg(lon),
                                            Deg(best.site.lat), Deg(best.site.lon))]

\* getLocalRadarId.ts:3-7; "" is null
getLocalRadarId(lat, lon, registry) ==
    LET r == resolveNearestRadar(lat, lon,
                 [maxDistanceKm |-> Fin(LOCAL_MAX_DISTANCE_KM),
                  filter |-> [present |-> FALSE, accepts |-> {}]], registry)
    IN IF r.isNull THEN "" ELSE r.site.id

\* Inputs the model draws
PointLatInputs == {Fin(-12), Fin(0), Fin(12), Fin(90), Fin(91), Fin(-91), JsNaN, PosInf}
PointLonInputs == {Fin(-180), Fin(0), Fin(90), Fin(180), Fin(181), JsNaN}
MaxDistanceInputs == {Undefined, JsNaN, PosInf, Fin(0), Fin(LOCAL_MAX_DISTANCE_KM), Fin(1500)}
FilterInputs ==
    {[present |-> FALSE, accepts |-> {}],
     [present |-> TRUE, accepts |-> {}],
     [present |-> TRUE, accepts |-> {"KSTH", "KEST"}],
     [present |-> TRUE, accepts |-> {"KNTH", "KSTH", "KEST"}]}

\* Registries: sites of the pool in any order, none twice
Registries ==
    {r \in UNION {[1..n -> SitePool] : n \in 0..MaxSites} :
        \A i, j \in DOMAIN r : i # j => r[i] # r[j]}

NotCalled == [called |-> FALSE, via |-> "", result |-> NullResult, id |-> ""]

\* A caller holding a point, options and a registry, before the call
InitResolver ==
    /\ rnLat \in PointLatInputs
    /\ rnLon \in PointLonInputs
    /\ rnOpts \in [maxDistanceKm : MaxDistanceInputs, filter : FilterInputs]
    /\ rnRegistry \in Registries
    /\ rnOut = NotCalled

\* The values the resolver's variables keep in the other specifications
InitResolverFixed ==
    /\ rnLat = Fin(0)
    /\ rnLon = Fin(0)
    /\ rnOpts = [maxDistanceKm |-> Undefined, filter |-> [present |-> FALSE, accepts |-> {}]]
    /\ rnRegistry = <<>>
    /\ rnOut = NotCalled

\* resolveNearestRadar(lat, lon, opts)
Resolve ==
    /\ ~rnOut.called
    /\ rnOut' = [called |-> TRUE, via |-> "resolveNearestRadar",
                 result |-> resolveNearestRadar(rnLat, rnLon, rnOpts, rnRegistry),
                 id |-> ""]
    /\ UNCHANGED <<rnLat, rnLon, rnOpts, rnRegistry>>
    /\ UNCHANGED notResolver

\* getLocalRadarId(lat, lon)
LocalRadarId ==
    /\ ~rnOut.called
    /\ rnOut' = [called |-> TRUE, via |-> "getLocalRadarId", result |-> NullResult,
                 id |-> getLocalRadarId(rnLat, rnLon, rnRegistry)]
    /\ UNCHANGED <<rnLat, rnLon, rnOpts, rnRegistry>>
    /\ UNCHANGED notResolver

NextResolver == Resolve \/ LocalRadarId

-----------------------------------------------------------------------------
(* RainViewer provider adapter: app/lib/maps/radar/providers/rainviewer.ts   *)
(* cachedFrames and cacheExpiresAt are module-level, shared by every         *)
(* provider; cachedHost and cachedPaths belong to one provider instance.     *)
(* A frame is identified by its time t.                                       *)

PROVIDER_TTL_MS == 60000
DEFAULT_MAX_FRAMES == 12
DEFAULT_MAX_ZOOM == 10

\* Bounds of the provider model
MaxProviderCalls == 3
MaxProviderTicks == 1

ProviderClockSteps == {1, PROVIDER_TTL_MS}

\* createRainViewerProvider(opts): rainviewer.ts:22-36
createRainViewerProvider(hasMaxFrames, maxFrames) ==
    [ttlMs |-> PROVIDER_TTL_MS,
     includeNowcast |-> TRUE,
     maxFrames |-> IF hasMaxFrames THEN maxFrames ELSE DEFAULT_MAX_FRAMES,
     maxZoom |-> DEFAULT_MAX_ZOOM]

\* The provider instances of the model: one with the defaults, one capped
Providers == {"default", "capped"}
ProviderOpts ==
    [p \in Providers |-> IF p = "default" THEN createRainViewerProvider(FALSE, 0)
                         ELSE createRainViewerProvider(TRUE, 1)]

\* Paths of the responses, and the number of characters of each piece
PathC == <<"/", "v2/radar/30", "/256/{z}/{x}/{y}/2/1_1.png">>
PathShort == <<"/", "x">>
PieceLength ==
    [s \in {"/", "x", "v2/radar/10", "v2/radar/20", "v2/radar/30",
            "/256/{z}/{x}/{y}/2/1_1.png"} |->
        CASE s = "/" -> 1
          [] s = "x" -> 1
          [] s = "/256/{z}/{x}/{y}/2/1_1.png" -> 26
          [] OTHER -> 11]

\* path.length
RECURSIVE StringLength(_)
StringLength(path) ==
    IF path = <<>> THEN 0 ELSE PieceLength[Head(path)] + StringLength(Tail(path))

\* path.includes('{z}') && path.includes('{x}') && path.includes('{y}')
looksLikeTemplate(path) ==
    \E i \in DOMAIN path : path[i] = "/256/{z}/{x}/{y}/2/1_1.png"

\* Responses of maps.json: in order, out of order, with a time listed twice,
\* with a path too short to keep, and without host
P_ordered == Manifest(HostPlain, <<Entry(10, PathA)>>, <<Entry(20, PathB)>>)
P_unordered == Manifest(HostPlain, <<Entry(30, PathC), Entry(10, PathA)>>, <<Entry(20, PathB)>>)
P_sametime == Manifest(HostPlain, <<Entry(10, PathA), Entry(10, PathB)>>, <<>>)
P_short == Manifest(HostPlain, <<Entry(10, PathShort), BadEntry(PathA)>>, <<>>)
ProviderBodies == {P_ordered, P_unordered, P_sametime, P_short, M_nohost}

\* rainviewer.ts:18-20 (iso is the time in ms)
toFrame(t) == [t |-> t, iso |-> t * 1000]

\* rainviewer.ts:51  the filter's predicate
KeepEntry(p) == p.timeIsNum /\ p.pathIsStr /\ StringLength(p.path) > 3

\* rainviewer.ts:52  .sort((a, b) => a.time - b.time), a stable sort
RECURSIVE InsertByTime(_, _)
InsertByTime(sorted, e) ==
    IF sorted = <<>> THEN <<e>>
    ELSE IF sorted[Len(sorted)].time <= e.time THEN Append(sorted, e)
    ELSE Append(InsertByTime(SubSeq(sorted, 1, Len(sorted) - 1), e), sorted[Len(sorted)])

RECURSIVE SortByTime(_)
SortByTime(s) ==
    IF s = <<>> THEN <<>>
    ELSE InsertByTime(SortByTime(SubSeq(s, 1, Len(s) - 1)), s[Len(s)])

\* rainviewer.ts:38-61, for a response whose status is ok
fetchFrames(opts, data) ==
    IF data.host = <<>>
    THEN [ok |-> FALSE, frames |-> <<>>, host |-> <<>>, paths |-> <<>>]
    ELSE LET past == data.past
             nowcast == IF opts.includeNowcast THEN data.nowcast ELSE <<>>
             combined == SortByTime(SelectSeq(past \o nowcast, KeepEntry))
             tail == SubSeq(combined, Max(0, Len(combined) - opts.maxFrames) + 1,
                            Len(combined))
         IN [ok |-> TRUE,
             frames |-> [k \in 1..Len(tail) |-> toFrame(tail[k].time)],
             host |-> data.host,
             paths |-> [k \in 1..Len(tail) |-> tail[k].path]]

\* rainviewer.ts:65-78
tileTemplateFor(host, path) ==
    IF looksLikeTemplate(path) THEN host \o path
    ELSE host \o path \o <<"/256/{z}/{x}/{y}/2/1_1.png">>

\* cachedFrames.findIndex((f) => f.t === frame.t), 0-based, -1 when absent
findIndex(frames, t) ==
    IF \E k \in DOMAIN frames : frames[k].t = t
    THEN (CHOOSE k \in DOMAIN frames :
             frames[k].t = t /\ \A j \in 1..(k - 1) : frames[j].t # t) - 1
    ELSE -1

NullList == [isNull |-> TRUE, items |-> <<>>]
List(items) == [isNull |-> FALSE, items |-> items]

NoTemplateCall == [called |-> FALSE, by |-> "", t |-> 0, threw |-> FALSE, template |-> <<>>]

\* rainviewer.ts:98-110, on the module's cachedFrames and the instance's
\* cachedPaths and cachedHost. Past the end of cachedPaths the path is
\* undefined, and path.includes in tileTemplateFor throws a TypeError.
getTileUrlTemplate(frames, paths, host, t) ==
    IF frames.isNull \/ paths.isNull \/ host = <<>>
    THEN [threw |-> TRUE, template |-> <<>>]
    ELSE LET idx == findIndex(frames.items, t)
             at == Max(0, idx) + 1
         IN IF at \in DOMAIN paths.items
            THEN [threw |-> FALSE, template |-> tileTemplateFor(host, paths.items[at])]
            ELSE [threw |-> TRUE, template |-> <<>>]

\* rainviewer.ts:88
ProviderCacheHit(p) ==
    /\ ~cachedFrames.isNull
    /\ pvNow < cacheExpiresAt
    /\ pvInst[p].cachedHost # <<>>
    /\ ~pvInst[p].cachedPaths.isNull

FrameTimeInputs == {10, 20, 30, 99}

NewProvider ==
    [pc |-> "idle", now |-> 0, cachedHost |-> <<>>, cachedPaths |-> NullList,
     returned |-> NullList, rejected |-> "", fetched |-> FALSE, body |-> NoData]

\* The module as loaded, and the providers as created
InitProvider ==
    /\ pvNow = 0
    /\ pvTicks = 0
    /\ pvCalls = 0
    /\ cachedFrames = NullList
    /\ cacheExpiresAt = 0
    /\ pvInst = [p \in Providers |-> NewProvider]
    /\ pvOut = NoTemplateCall

\* The clock advances
ProviderTick ==
    /\ pvTicks < MaxProviderTicks
    /\ \E d \in ProviderClockSteps : pvNow' = pvNow + d
    /\ pvTicks' = pvTicks + 1
    /\ pvOut' = NoTemplateCall
    /\ UNCHANGED <<pvCalls, cachedFrames, cacheExpiresAt, pvInst>>
    /\ UNCHANGED notProvider

\* getFrames served from the cache: rainviewer.ts:87-88
GetFramesHit(p) ==
    /\ pvInst[p].pc = "idle"
    /\ pvCalls < MaxProviderCalls
    /\ ProviderCacheHit(p)
    /\ pvInst' = [pvInst EXCEPT ![p].returned = cachedFrames, ![p].rejected = "",
                                ![p].fetched = FALSE, ![p].body = NoData]
    /\ pvCalls' = pvCalls + 1
    /\ pvOut' = NoTemplateCall
    /\ UNCHANGED <<pvNow, pvTicks, cachedFrames, cacheExpiresAt>>
    /\ UNCHANGED notProvider

\* getFrames misses and awaits fetchFrames(): rainviewer.ts:87-90
GetFramesMiss(p) ==
    /\ pvInst[p].pc = "idle"
    /\ pvCalls < MaxProviderCalls
    /\ ~ProviderCacheHit(p)
    /\ pvInst' = [pvInst EXCEPT ![p].pc = "fetching", ![p].now = pvNow]
    /\ pvCalls' = pvCalls + 1
    /\ pvOut' = NoTemplateCall
    /\ UNCHANGED <<pvNow, pvTicks, cachedFrames, cacheExpiresAt>>
    /\ UNCHANGED notProvider

\* fetchFrames() resolves and getFrames stores its result: rainviewer.ts:90-96;
\* or it throws on a response without host (line 45) and nothing is stored
FetchFramesDone(p, data) ==
    /\ pvInst[p].pc = "fetching"
    /\ LET r == fetchFrames(ProviderOpts[p], data)
       IN IF r.ok
          THEN /\ cachedFrames' = List(r.frames)
               /\ cacheExpiresAt' = pvInst[p].now + ProviderOpts[p].ttlMs
               /\ pvInst' = [pvInst EXCEPT ![p].pc = "idle",
                                           ![p].cachedHost = r.host,
                                           ![p].cachedPaths = List(r.paths),
                                           ![p].returned = List(r.frames),
                                           ![p].rejected = "",
                                           ![p].fetched = TRUE,
                                           ![p].body = data]
          ELSE /\ pvInst' = [pvInst EXCEPT ![p].pc = "idle",
                                           ![p].rejected = "missing host",
                                           ![p].fetched = FALSE,
                                           ![p].body = NoData]
               /\ UNCHANGED <<cachedFrames, cacheExpiresAt>>
    /\ pvOut' = NoTemplateCall
    /\ UNCHANGED <<pvNow, pvTicks, pvCalls>>
    /\ UNCHANGED notProvider

\* fetch fails or the status is not ok: rainviewer.ts:39-40
FetchFramesFail(p) ==
    /\ pvInst[p].pc = "fetching"
    /\ pvInst' = [pvInst EXCEPT ![p].pc = "idle", ![p].rejected = "fetch failed",
                                ![p].fetched = FALSE, ![p].body = NoData]
    /\ pvOut' = NoTemplateCall
    /\ UNCHANGED <<pvNow, pvTicks, pvCalls, cachedFrames, cacheExpiresAt>>
    /\ UNCHANGED notProvider

\* getTileUrlTemplate(frame): rainviewer.ts:98-110
GetTileUrlTemplate(p, t) ==
    /\ pvCalls < MaxProviderCalls
    /\ LET r == getTileUrlTemplate(cachedFrames, pvInst[p].cachedPaths,
                                   pvInst[p].cachedHost, t)
       IN pvOut' = [called |-> TRUE, by |-> p, t |-> t, threw |-> r.threw,
                    template |-> r.template]
    /\ pvCalls' = pvCalls + 1
    /\ UNCHANGED <<pvNow, pvTicks, cachedFrames, cacheExpiresAt, pvInst>>
    /\ UNCHANGED notProvider

NextProvider ==
    \/ ProviderTick
    \/ \E p \in Providers : GetFramesHit(p)
    \/ \E p \in Providers : GetFramesMiss(p)
    \/ \E p \in Providers, data \in ProviderBodies : FetchFramesDone(p, data)
    \/ \E p \in Providers : FetchFramesFail(p)
    \/ \E p \in Providers, t \in FrameTimeInputs : GetTileUrlTemplate(p, t)

-----------------------------------------------------------------------------
(* Anchor point of the maps screen: app/(tabs)/maps.tsx 46-52, 121-145,      *)
(* 330-340, 356-362. The anchor follows the GPS location in mode 'gps' and   *)
(* the map center, debounced, in mode 'map'. Coordinates are in 1e-2 degrees. *)

ANCHOR_DEBOUNCE_MS == 120

\* Bounds of the anchor model
MaxAnchorEvents == 4
MaxAnchorTicks == 2

AnchorClockSteps == {ANCHOR_DEBOUNCE_MS \div 2, ANCHOR_DEBOUNCE_MS}

NoPoint == [isNull |-> TRUE, lat |-> 0, lon |-> 0]
Point(lat, lon) == [isNull |-> FALSE, lat |-> lat, lon |-> lon]

\* maps.tsx:324: the center of the initial region without a location
DefaultCenter == Point(3950, -9835)

\* Inputs the model draws: locations reported by useLocation, and map centers
GpsInputs == {Point(3342, -11183), Point(4071, -7401)}
CenterInputs == {Point(3000, -9000), Point(4500, -10000)}
PermissionInputs == {"granted", "denied"}

\* The dependency lists of the two anchor effects (maps.tsx:133, 140)
GpsEffectDeps == <<permission, location, anchorMode>>
FirstAnchorDeps == <<anchorPoint, permission, location>>

\* The screen after construction, before its first effects have run
InitAnchor ==
    /\ anMounted = TRUE
    /\ anDirty = TRUE
    /\ anNow = 0
    /\ anTicks = 0
    /\ anEvents = 0
    /\ permission \in PermissionInputs
    /\ location = NoPoint
    /\ anchorMode = "gps"
    /\ anchorPoint = NoPoint
    /\ mapCenter = DefaultCenter
    /\ anTimeouts = <<>>
    /\ tRef = 0
    /\ anLastGpsDeps = <<>>
    /\ anLastFirstDeps = <<>>

\* The values the anchor's variables keep in the other specifications
InitAnchorFixed ==
    /\ anMounted = TRUE
    /\ anDirty = TRUE
    /\ anNow = 0
    /\ anTicks = 0
    /\ anEvents = 0
    /\ permission = "granted"
    /\ location = NoPoint
    /\ anchorMode = "gps"
    /\ anchorPoint = NoPoint
    /\ mapCenter = DefaultCenter
    /\ anTimeouts = <<>>
    /\ tRef = 0
    /\ anLastGpsDeps = <<>>
    /\ anLastFirstDeps = <<>>

\* The clock advances
AnchorTick ==
    /\ anTicks < MaxAnchorTicks
    /\ \E d \in AnchorClockSteps : anNow' = anNow + d
    /\ anTicks' = anTicks + 1
    /\ UNCHANGED <<anMounted, anDirty, anEvents, permission, location, anchorMode,
                   anchorPoint, mapCenter, anTimeouts, tRef, anLastGpsDeps,
                   anLastFirstDeps>>
    /\ UNCHANGED notAnchor

\* useLocation reports a position (maps.tsx:100)
LocationUpdate(loc) ==
    /\ anMounted
    /\ ~anDirty
    /\ anEvents < MaxAnchorEvents
    /\ permission = "granted"
    /\ loc # location
    /\ location' = loc
    /\ anDirty' = TRUE
    /\ anEvents' = anEvents + 1
    /\ UNCHANGED <<anMounted, anNow, anTicks, permission, anchorMode, anchorPoint,
                   mapCenter, anTimeouts, tRef, anLastGpsDeps, anLastFirstDeps>>
    /\ UNCHANGED notAnchor

\* The user drags the map to center c: onPanDrag, maps.tsx:356-358
PanDrag(c) ==
    /\ anMounted
    /\ ~anDirty
    /\ anEvents < MaxAnchorEvents
    /\ c # mapCenter
    /\ mapCenter' = c
    /\ anchorMode' = "map"
    /\ anDirty' = (anchorMode # "map")
    /\ anEvents' = anEvents + 1
    /\ UNCHANGED <<anMounted, anNow, anTicks, permission, location, anchorPoint,
                   anTimeouts, tRef, anLastGpsDeps, anLastFirstDeps>>
    /\ UNCHANGED notAnchor

\* clearTimeout(tRef.current) on the pending timeouts
ClearTimeout(q, ref) ==
    IF ref = 0 \/ ref > Len(q) THEN q
    ELSE SubSeq(q, 1, ref - 1) \o SubSeq(q, ref + 1, Len(q))

\* useDebouncedCallback, maps.tsx:46-52: the call of the returned function with
\* the fn of the render that made it, which closes over that render's anchorMode
useDebouncedCallback(lat, lon) ==
    LET rest == ClearTimeout(anTimeouts, tRef)
    IN [timeouts |-> Append(rest, [lat |-> lat, lon |-> lon,
                                   due |-> anNow + ANCHOR_DEBOUNCE_MS,
                                   anchorMode |-> anchorMode]),
        ref |-> Len(rest) + 1]

\* onRegionChangeComplete, maps.tsx:359-362 (the zoom it also sets is left out)
RegionChangeComplete ==
    /\ anMounted
    /\ ~anDirty
    /\ anEvents < MaxAnchorEvents
    /\ anchorMode = "map"
    /\ LET d == useDebouncedCallback(mapCenter.lat, mapCenter.lon)
       IN /\ anTimeouts' = d.timeouts
          /\ tRef' = d.ref
    /\ anEvents' = anEvents + 1
    /\ UNCHANGED <<anMounted, anDirty, anNow, anTicks, permission, location, anchorMode,
                   anchorPoint, mapCenter, anLastGpsDeps, anLastFirstDeps>>
    /\ UNCHANGED notAnchor

\* Timeout k fires and runs debouncedAnchorToMap's fn (maps.tsx:142-145) with
\* the anchorMode its closure holds; tRef.current keeps the fired id, which
\* clearTimeout ignores. A set state on an unmounted screen has no effect.
DebounceFire(k) ==
    /\ k \in DOMAIN anTimeouts
    /\ anNow >= anTimeouts[k].due
    /\ ~anDirty
    /\ LET t == anTimeouts[k]
           sets == anMounted /\ t.anchorMode = "map"
       IN /\ anchorPoint' = IF sets THEN Point(t.lat, t.lon) ELSE anchorPoint
          /\ anDirty' = (anchorPoint' # anchorPoint)
    /\ anTimeouts' = ClearTimeout(anTimeouts, k)
    /\ tRef' = IF tRef = k THEN 0 ELSE IF tRef > k THEN tRef - 1 ELSE tRef
    /\ UNCHANGED <<anMounted, anNow, anTicks, anEvents, permission, location,
                   anchorMode, mapCenter, anLastGpsDeps, anLastFirstDeps>>
    /\ UNCHANGED notAnchor

\* recenterToGps, maps.tsx:330-340; the map animates to the location
recenterToGps ==
    /\ anMounted
    /\ ~anDirty
    /\ anEvents < MaxAnchorEvents
    /\ permission = "granted"
    /\ ~location.isNull
    /\ anchorMode' = "gps"
    /\ anchorPoint' = location
    /\ mapCenter' = location
    /\ anDirty' = (anchorMode # "gps" \/ anchorPoint # location)
    /\ anEvents' = anEvents + 1
    /\ UNCHANGED <<anMounted, anNow, anTicks, permission, location, anTimeouts, tRef,
                   anLastGpsDeps, anLastFirstDeps>>
    /\ UNCHANGED notAnchor

\* One pass of effects after a committed render: maps.tsx:128-133 and 135-140,
\* both reading the values of that render
AnchorRunEffects ==
    /\ anMounted
    /\ anDirty
    /\ LET gpsRuns == GpsEffectDeps # anLastGpsDeps
           firstRuns == FirstAnchorDeps # anLastFirstDeps
           hasFix == permission = "granted" /\ ~location.isNull
           gpsSets == gpsRuns /\ hasFix /\ anchorMode = "gps"
           firstSets == firstRuns /\ anchorPoint.isNull /\ hasFix
       IN anchorPoint' = IF gpsSets \/ firstSets THEN location ELSE anchorPoint
    /\ anLastGpsDeps' = GpsEffectDeps
    /\ anLastFirstDeps' = FirstAnchorDeps
    /\ anDirty' = (anchorPoint' # anchorPoint)
    /\ UNCHANGED <<anMounted, anNow, anTicks, anEvents, permission, location,
                   anchorMode, mapCenter, anTimeouts, tRef>>
    /\ UNCHANGED notAnchor

\* The screen unmounts: its state is discarded (it reads as at construction);
\* no cleanup clears the debounce timeout
AnchorUnmount ==
    /\ anMounted
    /\ ~anDirty
    /\ anMounted' = FALSE
    /\ anchorMode' = "gps"
    /\ anchorPoint' = NoPoint
    /\ anLastGpsDeps' = <<>>
    /\ anLastFirstDeps' = <<>>
    /\ UNCHANGED <<anDirty, anNow, anTicks, anEvents, permission, location, mapCenter,
                   anTimeouts, tRef>>
    /\ UNCHANGED notAnchor

NextAnchor ==
    \/ AnchorTick
    \/ \E loc \in GpsInputs : LocationUpdate(loc)
    \/ \E c \in CenterInputs : PanDrag(c)
    \/ RegionChangeComplete
    \/ \E k \in DOMAIN anTimeouts : DebounceFire(k)
    \/ recenterToGps
    \/ AnchorRunEffects
    \/ AnchorUnmount

-----------------------------------------------------------------------------
(* TimelineScrubber as a component under its parent: TimelineScrubber.tsx   *)
(* 85-118 with the props of maps.tsx:466-479. Whatever makes MapsScreen     *)
(* render again (crossfade progress 288, map zoom 360, a dispatch) hands    *)
(* the scrubber new onSetFrame and onSetPlaying arrows. Time is kept as the *)
(* ms left on each interval, so that it may go on without bound.            *)

\* Bounds of the scrubber model
MaxScrubberFrames == 3

ScrubberFrameCounts == 1..MaxScrubberFrames

\* The clock advances by half a playback interval at a time
ScrubberClockStep == SCRUB_INTERVAL_MS \div 2

\* TimelineScrubber.tsx:91
ScrubberIdx == clamp(Fin(tsState.radarTime.frameIndex), tsFrameCount).h \div 2

\* TimelineScrubber.tsx:118
ScrubberDeps == <<tsState.radarTime.playing, ScrubberIdx, tsFrameCount, tsCallbacks>>

\* The scrubber after its first render, before its effect has run
InitScrubber ==
    /\ tsState = createInitialMapState("radar", FALSE, DefaultViewport)
    /\ tsFrameCount \in ScrubberFrameCounts
    /\ tsCallbacks = 0
    /\ tsDirty = TRUE
    /\ tsIntervals = <<>>
    /\ tsTimerRef = 0
    /\ tsLastDeps = <<>>

\* The values the scrubber's variables keep in the other specifications
InitScrubberFixed ==
    /\ tsState = createInitialMapState("radar", FALSE, DefaultViewport)
    /\ tsFrameCount = 2
    /\ tsCallbacks = 0
    /\ tsDirty = TRUE
    /\ tsIntervals = <<>>
    /\ tsTimerRef = 0
    /\ tsLastDeps = <<>>

\* MapsScreen renders with state `next` and n frames: the arrows of
\* maps.tsx:469-478 are new objects
ParentCommit(next, n) ==
    /\ ~tsDirty
    /\ tsState' = next
    /\ tsFrameCount' = n
    /\ tsCallbacks' = 1 - tsCallbacks
    /\ tsDirty' = TRUE

\* A render of MapsScreen that changes nothing the scrubber shows: setFadeT
\* during a crossfade (maps.tsx:288), setMapZoom (360), a layer's opacity (503)
ParentRender ==
    /\ ParentCommit(tsState, tsFrameCount)
    /\ UNCHANGED <<tsIntervals, tsTimerRef, tsLastDeps>>
    /\ UNCHANGED notScrubber

\* The Play / Pause button, TimelineScrubber.tsx:133-138, disabled under 2 frames
PressPlay ==
    /\ tsFrameCount >= 2
    /\ ParentCommit(onSetPlaying(tsState, ~tsState.radarTime.playing, tsFrameCount),
                    tsFrameCount)
    /\ UNCHANGED <<tsIntervals, tsTimerRef, tsLastDeps>>
    /\ UNCHANGED notScrubber

\* The parent's activeFrames change length (maps.tsx:197-203)
FramesChange(n) ==
    /\ n # tsFrameCount
    /\ ParentCommit(tsState, n)
    /\ UNCHANGED <<tsIntervals, tsTimerRef, tsLastDeps>>
    /\ UNCHANGED notScrubber

\* TimelineScrubber.tsx:108-110: interval k fires with the idx, frameCount and
\* onSetFrame of the render that armed it, and is due again 350 ms later
ScrubberTick(k) ==
    /\ k \in DOMAIN tsIntervals
    /\ tsIntervals[k].left <= 0
    /\ ParentCommit(onSetFrame(tsState,
                               nextFrameIndexScrubber(tsIntervals[k].idx, tsIntervals[k].n),
                               tsIntervals[k].n),
                    tsFrameCount)
    /\ tsIntervals' = [tsIntervals EXCEPT ![k].left = SCRUB_INTERVAL_MS]
    /\ UNCHANGED <<tsTimerRef, tsLastDeps>>
    /\ UNCHANGED notScrubber

\* Time passes while no interval is due
ScrubberElapse ==
    /\ ~tsDirty
    /\ tsIntervals # <<>>
    /\ \A k \in DOMAIN tsIntervals : tsIntervals[k].left > 0
    /\ tsIntervals' = [k \in DOMAIN tsIntervals |->
                          [tsIntervals[k] EXCEPT !.left = @ - ScrubberClockStep]]
    /\ UNCHANGED <<tsState, tsFrameCount, tsCallbacks, tsDirty, tsTimerRef, tsLastDeps>>
    /\ UNCHANGED notScrubber

\* The timer effect after a committed render, TimelineScrubber.tsx:95-118: when
\* a dependency differs, the previous run's cleanup and then the effect
ScrubberRunEffect ==
    /\ tsDirty
    /\ LET runs == ScrubberDeps # tsLastDeps
           playing == tsState.radarTime.playing
           cleared == CancelFrame(tsIntervals, tsTimerRef)
           stops == runs /\ playing /\ tsFrameCount < 2
           arms == runs /\ playing /\ tsFrameCount >= 2
       IN /\ tsIntervals' =
                IF ~runs THEN tsIntervals
                ELSE IF arms
                THEN Append(cleared, [idx |-> ScrubberIdx, n |-> tsFrameCount,
                                      left |-> SCRUB_INTERVAL_MS])
                ELSE cleared
          /\ tsTimerRef' = IF ~runs THEN tsTimerRef
                           ELSE IF arms THEN Len(cleared) + 1 ELSE 0
          /\ tsState' = IF stops THEN onSetPlaying(tsState, FALSE, tsFrameCount)
                        ELSE tsState
          /\ tsCallbacks' = IF stops THEN 1 - tsCallbacks ELSE tsCallbacks
          /\ tsDirty' = stops
    /\ tsLastDeps' = ScrubberDeps
    /\ UNCHANGED tsFrameCount
    /\ UNCHANGED notScrubber

NextScrubber ==
    \/ ParentRender
    \/ PressPlay
    \/ \E n \in ScrubberFrameCounts : FramesChange(n)
    \/ \E k \in DOMAIN tsIntervals : ScrubberTick(k)
    \/ ScrubberElapse
    \/ ScrubberRunEffect

\* What the runtime guarantees: time goes on, an interval that is due comes to
\* fire, and a committed render runs its effect. Nothing obliges the parent
\* or the user to act, or to stop.
FairScrubber ==
    /\ SF_vars(ScrubberElapse)
    /\ SF_vars(\E k \in DOMAIN tsIntervals : ScrubberTick(k))
    /\ WF_vars(ScrubberRunEffect)

-----------------------------------------------------------------------------
(* Claims about the scrubber's playback timer *)

\* C28: while the timeline is playing over at least two frames, the playback
\* interval comes to fire and the frame index becomes the one after the current
\* frame, whatever renders of the parent happen in between.
C28_PlaybackTickEventuallyFires ==
    \A n \in 2..MaxScrubberFrames : \A i \in 0..(MaxScrubberFrames - 1) :
        (tsState.radarTime.playing /\ tsFrameCount = n /\ tsState.radarTime.frameIndex = i)
            ~> \/ ~tsState.radarTime.playing
               \/ tsFrameCount # n
               \/ tsState.radarTime.frameIndex =
                      nextFrameIndexScrubber(clamp(Fin(i), n).h \div 2, n)

-----------------------------------------------------------------------------
(* Claims about the anchor point *)

\* C26: a step that switches the anchor mode sets the anchor point, in that
\* same step, from the source that is now authoritative: the map center on a
\* switch to 'map', the latest GPS location on a switch to 'gps'.
C26_ModeSwitchRecomputesAnchor ==
    [][(anMounted /\ anMounted' /\ anchorMode' # anchorMode) =>
          IF anchorMode' = "map"
          THEN anchorPoint' = mapCenter'
          ELSE anchorPoint' = location']_vars

\* C29: once the effects of a render have run, the anchor point in mode 'gps'
\* is the latest location reported (null before any), and a disposed screen's
\* anchor point is never set by a timeout that was pending.
C29_GpsAnchorIsLatestLocation ==
    /\ (anMounted /\ ~anDirty /\ anchorMode = "gps" /\ permission = "granted") =>
           anchorPoint = location
    /\ ~anMounted => anchorPoint = NoPoint

-----------------------------------------------------------------------------
(* Specifications *)

\* The manifest cache with callers that may overlap (the mount-time frame fetch
\* and the tile-url effect both enter fetchRainViewerMapsJson)
InitCache ==
    /\ InitCacheVars /\ overlap = TRUE
    /\ InitReducer /\ InitTimelineFixed /\ InitScreen /\ InitHook /\ InitResolverFixed
    /\ InitProvider /\ InitViewSwitchFixed
    /\ InitAnchorFixed /\ InitScrubberFixed
SpecCache == InitCache /\ [][NextCache]_vars

\* The manifest cache with requests made one after the other
InitCacheSeq ==
    /\ InitCacheVars /\ overlap = FALSE
    /\ InitReducer /\ InitTimelineFixed /\ InitScreen /\ InitHook /\ InitResolverFixed
    /\ InitProvider /\ InitViewSwitchFixed
    /\ InitAnchorFixed /\ InitScrubberFixed
SpecCacheSeq == InitCacheSeq /\ [][NextCache]_vars

\* The reducer under any sequence of dispatched actions
InitReducerSpec ==
    /\ InitReducer
    /\ InitCacheVars /\ overlap = FALSE /\ InitTimelineFixed /\ InitScreen /\ InitHook
    /\ InitResolverFixed /\ InitProvider /\ InitViewSwitchFixed
    /\ InitAnchorFixed /\ InitScrubberFixed
SpecReducer == InitReducerSpec /\ [][NextReducer]_vars

\* The frame-index helpers applied to arguments drawn from bounded sets
InitTimelineSpec ==
    /\ InitTimeline
    /\ InitCacheVars /\ overlap = FALSE /\ InitReducer /\ InitScreen /\ InitHook
    /\ InitResolverFixed /\ InitProvider /\ InitViewSwitchFixed
    /\ InitAnchorFixed /\ InitScrubberFixed
SpecTimeline == InitTimelineSpec /\ [][NextTimeline]_vars

\* The maps screen from mount, under user input, network outcomes and time
InitScreenSpec ==
    /\ InitScreen /\ InitReducer /\ InitCacheVars /\ overlap = FALSE
    /\ InitTimelineFixed /\ InitHook /\ InitResolverFixed /\ InitProvider /\ InitViewSwitchFixed
    /\ InitAnchorFixed /\ InitScrubberFixed
SpecScreen == InitScreenSpec /\ [][NextScreen]_vars

\* The hook from mount, under host inputs and its own timers
InitHookSpec ==
    /\ InitHook /\ InitScreen /\ InitReducer /\ InitCacheVars /\ overlap = FALSE
    /\ InitTimelineFixed /\ InitResolverFixed /\ InitProvider /\ InitViewSwitchFixed
    /\ InitAnchorFixed /\ InitScrubberFixed
SpecHook == InitHookSpec /\ [][NextHook]_vars

\* The resolver called once on a point, options and a registry drawn from bounded sets
InitResolverSpec ==
    /\ InitResolver /\ InitHook /\ InitScreen /\ InitReducer /\ InitCacheVars
    /\ overlap = FALSE /\ InitTimelineFixed /\ InitProvider /\ InitViewSwitchFixed
    /\ InitAnchorFixed /\ InitScrubberFixed
SpecResolver == InitResolverSpec /\ [][NextResolver]_vars

\* The provider adapter: two instances, their getFrames and getTileUrlTemplate
\* calls in any interleaving
InitProviderSpec ==
    /\ InitProvider /\ InitResolverFixed /\ InitHook /\ InitScreen /\ InitReducer
    /\ InitCacheVars /\ overlap = FALSE /\ InitTimelineFixed /\ InitViewSwitchFixed
    /\ InitAnchorFixed /\ InitScrubberFixed

\* SET_VIEW as a function of the state it is dispatched on
InitViewSwitchSpec ==
    /\ InitViewSwitch /\ InitProvider /\ InitResolverFixed /\ InitHook /\ InitScreen
    /\ InitReducer /\ InitCacheVars /\ overlap = FALSE /\ InitTimelineFixed
    /\ InitAnchorFixed /\ InitScrubberFixed
SpecViewSwitch == InitViewSwitchSpec /\ [][NextViewSwitch]_vars
SpecProvider == InitProviderSpec /\ [][NextProvider]_vars

\* The anchor point from mount, under location reports, map gestures and time
InitAnchorSpec ==
    /\ InitAnchor /\ InitViewSwitchFixed /\ InitProvider /\ InitResolverFixed /\ InitHook
    /\ InitScreen /\ InitReducer /\ InitCacheVars /\ overlap = FALSE /\ InitTimelineFixed
    /\ InitScrubberFixed
SpecAnchor == InitAnchorSpec /\ [][NextAnchor]_vars

\* The scrubber over unbounded time, under the runtime's guarantees
InitScrubberSpec ==
    /\ InitScrubber /\ InitAnchorFixed /\ InitViewSwitchFixed /\ InitProvider
    /\ InitResolverFixed /\ InitHook /\ InitScreen /\ InitReducer /\ InitCacheVars
    /\ overlap = FALSE /\ InitTimelineFixed
SpecScrubber == InitScrubberSpec /\ [][NextScrubber]_vars /\ FairScrubber

\* The two timeline controllers, the scrubber of the maps screen and the hook,
\* each run on its own from mount while the other stays as constructed
NextControllers ==
    \/ InitHook /\ NextScreen
    \/ InitScreen /\ InitReducer /\ NextHook
SpecControllers == InitScreenSpec /\ [][NextControllers]_vars

-----------------------------------------------------------------------------
(* Claims about the manifest cache *)

C2_SingleFlight == Cardinality(InFlight) <= 1

\* C3: the cache never holds a malformed manifest (missing host, untyped entries,
\* no frames), and a caller is never handed an empty frame list as a success.
C3_MalformedNeverCached ==
    /\ RV_CACHE.data.isNull \/ WellFormed(RV_CACHE.data)
    /\ \A c \in Callers : rvOut[c].kind = "frames" => rvOut[c].frames # <<>>

-----------------------------------------------------------------------------
(* Claims about the reducer *)

\* C4: every key of state.layers is a layer id of the catalog (a dispatch with an
\* absent layer id creates no key).
C4_LayerKeysInCatalog == DOMAIN mapState.layers \subseteq CatalogIds

\* C5: a layer customized to opacity o under view A still has opacity o after
\* SET_VIEW(B) followed by SET_VIEW(A).
C5_OpacitySurvivesRoundTrip ==
    trip.stage = 2 =>
        /\ mapState.viewId = trip.viewA
        /\ mapState.layers[trip.layerId].hasOpacity
        /\ mapState.layers[trip.layerId].opacity = trip.o

\* C5 witness: radar customized to 30 under the wildfire view (preset 85, catalog
\* default 90), then SET_VIEW(radar), then SET_VIEW(wildfire).
C5_Witness ==
    /\ trip.stage = 2
    /\ trip.layerId = "radar.reflectivity"
    /\ trip.o = 30
    /\ trip.viewA = "wildfire"
    /\ trip.viewB = "radar"
    /\ mapState.layers["radar.reflectivity"].opacity = 30

\* The requested opacity brought into [0,1], NaN taken as 0 (hundredths)
ClampedRequest(op) ==
    IF op.isNaN THEN 0 ELSE IF op.v < 0 THEN 0 ELSE IF op.v > 100 THEN 100 ELSE op.v

\* C19: every entry of state.layers has an opacity that is a number in [0,1], and
\* the entry SET_LAYER_OPACITY has just written holds the requested opacity
\* clamped to [0,1], NaN stored as 0.
C19_EveryOpacityInUnitRange ==
    /\ \A id \in DOMAIN mapState.layers :
           /\ mapState.layers[id].hasOpacity
           /\ mapState.layers[id].opacity \in 0..100
    /\ trip.stage = 0 =>
           /\ mapState.layers[trip.layerId].hasOpacity
           /\ mapState.layers[trip.layerId].opacity = ClampedRequest(trip.asked)

\* state.layers[id]?.enabled
LayerEnabled(st, id) ==
    /\ id \in DOMAIN st.layers
    /\ st.layers[id].hasEnabled
    /\ st.layers[id].enabled

\* C20: SET_VIEW(v) yields a state in which a layer is enabled exactly when it is
\* in v's preset enabled set, every layer has the opacity it had in the previous
\* state, and radarTime (frameIndex, playing), nerdy and viewport are those of
\* the previous state.
C20_SetViewKeepsOpacityAndTimeline ==
    svOut.called =>
        LET next == svOut.next
            preset == MAP_VIEWS[svOut.viewId].presetEnabledLayers
        IN /\ \A id \in DOMAIN next.layers \cup DOMAIN svPrev.layers \cup preset :
                  LayerEnabled(next, id) <=> id \in preset
           /\ \A id \in DOMAIN next.layers :
                  /\ id \in DOMAIN svPrev.layers
                  /\ next.layers[id].hasOpacity = svPrev.layers[id].hasOpacity
                  /\ next.layers[id].opacity = svPrev.layers[id].opacity
           /\ next.radarTime = svPrev.radarTime
           /\ next.nerdy = svPrev.nerdy
           /\ next.viewport = svPrev.viewport

\* C20 witness: under the radar view the user enabled the smoke layer and set the
\* radar opacity to 0.3; SET_VIEW(storm) leaves smoke disabled, lightning enabled
\* and the radar opacity at 0.3.
C20_Witness ==
    /\ svOut.called
    /\ svOut.viewId = "storm"
    /\ svPrev.viewId = "radar"
    /\ LayerEnabled(svPrev, "wildfire.smoke")
    /\ svPrev.layers["radar.reflectivity"].opacity = 30
    /\ ~LayerEnabled(svOut.next, "wildfire.smoke")
    /\ LayerEnabled(svOut.next, "lightning.strikes")
    /\ svOut.next.layers["radar.reflectivity"].opacity = 30

-----------------------------------------------------------------------------
(* Claims about the frame-index helpers *)

\* C9: on every integer index and every frame count, the three clamp functions
\* agree, each is idempotent, and the result is 0 when the frame count is <= 0 and
\* an integer in [0, frameCount - 1] otherwise.
C9_ClampIdempotentInRange ==
    (tlClamp.applied /\ IsInteger(tlI)) =>
        /\ tlClamp.tl = tlClamp.mp
        /\ tlClamp.mp = tlClamp.sc
        /\ tlClamp.tl2 = tlClamp.tl
        /\ tlClamp.mp2 = tlClamp.mp
        /\ tlClamp.sc2 = tlClamp.sc
        /\ IsInteger(tlClamp.tl)
        /\ IF tlN <= 0 THEN tlClamp.tl = Fin(0)
           ELSE 0 <= tlClamp.tl.h /\ tlClamp.tl.h <= 2 * (tlN - 1)

\* C9 witness: an index above the range, clamped to the last frame
C9_Witness ==
    /\ tlClamp.applied
    /\ tlI = Fin(7)
    /\ tlN = 5
    /\ tlClamp.tl = Fin(4)
    /\ tlClamp.sc2 = Fin(4)

\* C10: from a start index of the timeline (0 <= start < frameCount), frameCount
\* applications of next return the start index, and so do frameCount applications
\* of prev, for the helpers of timeline.ts and of the scrubber.
C10_FullCycleIdentity ==
    (tlCyc.k = tlN /\ 0 <= tlCyc.start /\ tlCyc.start < tlN) =>
        /\ tlCyc.tlNext = tlCyc.start
        /\ tlCyc.tlPrev = tlCyc.start
        /\ tlCyc.scNext = tlCyc.start
        /\ tlCyc.scPrev = tlCyc.start

\* C10 witness: frame count 5, start index 3, five applications done
C10_Witness ==
    /\ tlN = 5
    /\ tlCyc.k = 5
    /\ tlCyc.start = 3
    /\ tlCyc.tlNext = 3
    /\ tlCyc.scPrev = 3

-----------------------------------------------------------------------------
(* Claims about the maps screen *)

\* C6: a state produced by a setPlaying request never has playing = true with
\* fewer than 2 frames in the active timeline; in particular setPlaying(true)
\* requested with fewer than 2 frames leaves playing = false.
C6_SetPlayingGuard ==
    playReq.asked # "none" =>
        /\ ~(mapState.radarTime.playing /\ frameCount < 2)
        /\ (playReq.asked = "play" /\ playReq.n < 2) => ~mapState.radarTime.playing

\* C6 witness: the manifest delivered one frame, setPlaying(true) was requested
\* on that one-frame timeline, and playing is false.
C6_Witness ==
    /\ sMounted
    /\ Len(rvFrames) = 1
    /\ frameCount = 1
    /\ playReq = PlayReq(TRUE, 1)
    /\ ~mapState.radarTime.playing

\* C8: whenever the screen is settled and no animation-frame callback is
\* scheduled, the fade template is cleared and progress is 1, so that the base
\* slot carries the full radar opacity and the fade slot carries 0.
C8_IdleSingleSlot ==
    (sMounted /\ ~dirty /\ rafQueue = <<>>) =>
        /\ fadeUrl.isNull
        /\ fadeT = FADE_DURATION
        /\ baseOpacity = radarOpacity * FADE_DURATION
        /\ fadeOpacity = 0

\* C13: the active frame list of the maps screen is never empty, whether the
\* manifest fetch is pending, has failed or has delivered no valid frame.
C13_ActiveFramesNeverEmpty == frameCount >= 1

\* The fetch succeeded with no valid frame, and the fallback frames are in use
C13_Witness ==
    /\ sMounted /\ framesJob = "done" /\ radarError = ""
    /\ rvFrames = <<>>
    /\ activeFrames = fallbackLocalFrames /\ frameCount = 13

\* C21: in every reachable state of a mounted screen the stored
\* radarTime.frameIndex lies in [0, frameCount) for the frame count of the
\* active frame list, also right after that list was replaced by a shorter one.
C21_StoredFrameIndexInRange ==
    sMounted =>
        /\ mapState.radarTime.frameIndex >= 0
        /\ mapState.radarTime.frameIndex < frameCount

\* C22: a step that changes the active frame list of the mounted screen (the
\* fallback frames replaced by a fetched manifest, or the reverse) leaves the
\* timeline reset (frameIndex 0, not playing) and the crossfade reset (no fade
\* slot, progress idle).
C22_ManifestChangeResetsTimeline ==
    [][(sMounted /\ sMounted' /\ activeFrames' # activeFrames) =>
          /\ mapState'.radarTime.frameIndex = 0
          /\ ~mapState'.radarTime.playing
          /\ fadeUrl'.isNull
          /\ fadeT' = FADE_DURATION]_vars

\* C23: the step that fills an empty base slot with the resolved tile url
\* shows it at the full configured opacity and starts no crossfade: the fade
\* slot stays empty, progress stays idle and no animation frame is requested.
C23_FirstBaseWithoutAnimation ==
    [][(sMounted /\ sMounted' /\ baseUrl.isNull /\ ~baseUrl'.isNull) =>
          /\ fadeUrl'.isNull
          /\ fadeT' = FADE_DURATION
          /\ baseOpacity' = radarOpacity' * FADE_DURATION
          /\ animRef' = 0]_vars

\* C14: an error string is shown only when every frame source has failed; a
\* failed or malformed manifest fetch alone, with the fallback frames in use,
\* surfaces no error.
C14_ErrorOnlyWhenEverySourceFailed ==
    (sMounted /\ radarError # "") => frameCount = 0


\* The url is what the tile-url effect writes for the target template
\* (maps.tsx:235-241), whatever the time of the write
BuiltFor(url, target) ==
    /\ ~url.isNull
    /\ target # <<>>
    /\ \E d \in TileBodies :
          LET r == buildRainViewerTileUrlForFrame(d, Tail(target))
          IN /\ r.kind = "tile"
             /\ url.url = r.tileUrl \o <<JoinOf(r.tileUrl), "cb=">>

\* A resolution started for the most recently requested target has not settled
ResolutionPending == \E j \in DOMAIN tileJobs : ~tileJobs[j].cancelled

\* C17 as stated: in every reachable state the resolved tile URL was produced
\* for the most recently requested target.
C17_ResolvedUrlAlwaysForLatestTarget ==
    (sMounted /\ ~resolvedTargetUrl.isNull) => BuiltFor(resolvedTargetUrl, lastTargetDep)

\* C17, amended: a result that settles after a newer target was requested or
\* after disposal is never written; the resolved tile URL is null, or was
\* produced for the most recently requested target, or the resolution of that
\* target is still pending and the URL is the one of an earlier target; after
\* disposal neither frames nor a tile URL are written.
C17_StaleResultsDiscarded ==
    /\ (sMounted /\ ~resolvedTargetUrl.isNull) =>
          \/ BuiltFor(resolvedTargetUrl, lastTargetDep)
          \/ ResolutionPending
    /\ (sMounted /\ lastAsync = "tile applied" /\ ~resolvedTargetUrl.isNull) =>
          BuiltFor(resolvedTargetUrl, lastTargetDep)
    /\ ~sMounted => (resolvedTargetUrl.isNull /\ rvFrames = <<>>)

\* The resolution of a superseded target settled after the one of the latest
\* target and was discarded
C17_Witness ==
    /\ sMounted /\ lastAsync = "tile discarded"
    /\ ~ResolutionPending
    /\ BuiltFor(resolvedTargetUrl, lastTargetDep)


-----------------------------------------------------------------------------
(* Claims about the dual-slot hook *)

\* C7: in every settled state of the mounted hook, opacityA + opacityB equals
\* the configured opacity (the `opacity` option of the latest render), also
\* after that option was changed.
C7_SlotOpacitiesSumToConfigured ==
    (hMounted /\ ~hDirty) => hOpacityA + hOpacityB = hOpacity * FADE_STEPS

-----------------------------------------------------------------------------
(* Claims about the nearest-site resolver *)

\* The point passes the checks of resolveNearestRadar.ts:76-77
ValidPoint ==
    /\ isFiniteNumber(rnLat) /\ isFiniteNumber(rnLon)
    /\ Deg(rnLat) >= -90 /\ Deg(rnLat) <= 90
    /\ Deg(rnLon) >= -180 /\ Deg(rnLon) <= 180

\* The distance from the point to the site at position i of the registry
SiteDistance(i) ==
    haversineKm(Deg(rnLat), Deg(rnLon), Deg(rnRegistry[i].lat), Deg(rnRegistry[i].lon))

\* The positions of the registry the filter lets through
Candidates ==
    {i \in DOMAIN rnRegistry :
        ~rnOpts.filter.present \/ rnRegistry[i].id \in rnOpts.filter.accepts}

\* C11: for a valid point and a non-empty registry, resolveNearestRadar with
\* no filter and no maxDistanceKm returns a site of the registry, no other
\* site of the registry is nearer to the point than it, and the returned
\* distanceKm is that site's distance.
C11_NearestSiteReturned ==
    (/\ rnOut.called /\ rnOut.via = "resolveNearestRadar"
     /\ ValidPoint /\ rnRegistry # <<>>
     /\ ~rnOpts.filter.present /\ rnOpts.maxDistanceKm = Undefined) =>
        /\ ~rnOut.result.isNull
        /\ \E i \in DOMAIN rnRegistry :
              /\ rnOut.result.site = rnRegistry[i]
              /\ rnOut.result.distanceKm = SiteDistance(i)
        /\ \A j \in DOMAIN rnRegistry :
              ~DistanceLess(SiteDistance(j), rnOut.result.distanceKm)

\* C12: resolveNearestRadar returns null exactly when the point is not valid,
\* the registry is empty, the filter excludes every site, or the nearest
\* remaining site is farther than maxDistanceKm; getLocalRadarId returns null
\* exactly in the same cases, with no filter and 300 km.
C12_NullExactlyWhenNothingInReach ==
    /\ (rnOut.called /\ rnOut.via = "resolveNearestRadar") =>
          (rnOut.result.isNull <=>
              \/ ~ValidPoint
              \/ rnRegistry = <<>>
              \/ Candidates = {}
              \/ /\ isFiniteNumber(rnOpts.maxDistanceKm)
                 /\ \A i \in Candidates :
                       /\ IsFinite(SiteDistance(i))
                       /\ DistanceExceeds(SiteDistance(i), rnOpts.maxDistanceKm))
    /\ (rnOut.called /\ rnOut.via = "getLocalRadarId") =>
          (rnOut.id = "" <=>
              \/ ~ValidPoint
              \/ rnRegistry = <<>>
              \/ \A i \in DOMAIN rnRegistry :
                    /\ IsFinite(SiteDistance(i))
                    /\ DistanceExceeds(SiteDistance(i), Fin(LOCAL_MAX_DISTANCE_KM)))

\* C27: when resolveNearestRadar returns a site, no candidate is nearer, and of
\* the candidates at exactly that distance it is the first in registry order.
C27_FirstOfEquallyNearSites ==
    (rnOut.called /\ rnOut.via = "resolveNearestRadar" /\ ~rnOut.result.isNull) =>
        \E k \in Candidates :
            /\ rnOut.result.site = rnRegistry[k]
            /\ rnOut.result.distanceKm = SiteDistance(k)
            /\ \A j \in Candidates :
                   /\ \/ SiteDistance(j).kind = "nan"
                      \/ ~JsLess(SiteDistance(j), SiteDistance(k))
                   /\ j < k => SiteDistance(j) # SiteDistance(k)

\* C27 witness: two candidates at the same, minimum distance; the earlier one
\* was returned
C27_Witness ==
    /\ rnOut.called /\ rnOut.via = "resolveNearestRadar" /\ ~rnOut.result.isNull
    /\ \E k, j \in Candidates :
          /\ k < j
          /\ IsFinite(SiteDistance(k))
          /\ SiteDistance(j) = SiteDistance(k)
          /\ rnOut.result.site = rnRegistry[k]
          /\ rnOut.result.site # rnRegistry[j]
          /\ rnOut.result.distanceKm = SiteDistance(k)

-----------------------------------------------------------------------------
(* Claims about the playback timers of both controllers *)

\* C15: a controller has at most one live playback timer; once the effects of
\* a render have run, the live timer is the one armed for that render's
\* playing, speed, frame and frame count, and there is one exactly when
\* playing is true and there are at least 2 frames.
C15_AtMostOnePlaybackTimer ==
    /\ Len(sIntervals) <= 1
    /\ Len(hIntervals) <= 1
    /\ (sMounted /\ ~dirty) =>
          /\ (sIntervals # <<>>) <=> (mapState.radarTime.playing /\ frameCount >= 2)
          /\ \A k \in DOMAIN sIntervals :
                /\ timerRef = k
                /\ sIntervals[k].idx = safeFrameIndex
                /\ sIntervals[k].n = frameCount
    /\ (hMounted /\ ~hDirty) =>
          /\ (hIntervals # <<>>) <=> (hIsPlaying /\ Len(IEM_FRAMES) >= 2)
          /\ \A k \in DOMAIN hIntervals :
                /\ hOwned = k
                /\ hIntervals[k].speedMs = hSpeedMs
                /\ hIntervals[k].front = hFront
                /\ hIntervals[k].nextFrame = nextFrame

\* The hook's speed was changed while playing, and the one live timer is the
\* one armed for the new speed
C15_Witness ==
    /\ hMounted /\ ~hDirty /\ hIsPlaying
    /\ hSpeedMs = 800
    /\ Len(hIntervals) = 1 /\ hIntervals[1].speedMs = 800

\* C16: after the view is disposed no playback timer, fade timer or
\* animation-frame callback of the disposed instance is left scheduled, so
\* none can fire or change state.
C16_NothingScheduledAfterDisposal ==
    /\ ~sMounted => (sIntervals = <<>> /\ rafQueue = <<>>)
    /\ ~hMounted => (hIntervals = <<>> /\ hFades = <<>>)

\* The hook was unmounted in the middle of a fade (fadeTimer.current still
\* holds the cleared timer's id)
C16_Witness ==
    /\ ~hMounted /\ hFadeTimer # 0
    /\ hIntervals = <<>> /\ hFades = <<>>

\* The template of the hook's slot
SlotTemplate(slot, tA, tB) == IF slot = "A" THEN tA ELSE tB

\* C24 in the maps screen: a new fade target set while a fade is on restarts
\* progress at 0 with one requested animation frame, for the new target only;
\* and a filled base slot is only ever replaced by the current fade target.
C24_Screen ==
    sMounted' =>
        /\ Len(rafQueue') <= 1
        /\ (sMounted /\ ~fadeUrl.isNull /\ ~fadeUrl'.isNull /\ fadeUrl' # fadeUrl) =>
              /\ fadeT' = 0
              /\ rafQueue' = <<[url |-> fadeUrl', start |-> sNow']>>
              /\ animRef' = 1
        /\ (sMounted /\ ~baseUrl.isNull /\ baseUrl' # baseUrl) =>
              /\ baseUrl' = fadeUrl
              /\ baseUrl' = resolvedTargetUrl

\* C24 in useAnimatedRadar: a target loaded while a fade is on goes into the
\* back slot, the one fade interval left is the new one at step 0; and the
\* slot promoted to front holds the latest target.
C24_Hook ==
    hMounted' =>
        /\ Len(hFades') <= 1
        /\ (hMounted /\ hFades # <<>>
               /\ (hTemplateA' # hTemplateA \/ hTemplateB' # hTemplateB)) =>
              /\ SlotTemplate(hFront, hTemplateA', hTemplateB')
                    = SlotTemplate(hFront, hTemplateA, hTemplateB)
              /\ Len(hFades') = 1
              /\ hFades'[1].i = 0
              /\ hFades'[1].dir = (IF hFront = "A" THEN "AtoB" ELSE "BtoA")
              /\ hFadeTimer' = 1
        /\ (hMounted /\ hFront' # hFront) =>
              SlotTemplate(hFront', hTemplateA', hTemplateB')
                 = iemFrameTemplate(FrameAt(hFrameIndex'))

\* C24: a transition requested before the previous one completes cancels it,
\* the new target replaces the old fade target and progress restarts from 0;
\* the superseded target is never promoted, and there is never more than one
\* animation, running or queued.
C24_NewTransitionReplacesOld == [][C24_Screen /\ C24_Hook]_vars

\* C24 witness: in the hook, a fade towards slot B had advanced (B is partly
\* opaque, A still in front) when a new target was loaded: its fade is at step 0
C24_Witness ==
    /\ hMounted
    /\ hFront = "A"
    /\ hOpacityB > 0
    /\ Len(hFades) = 1
    /\ hFades[1].i = 0
    /\ hFades[1].dir = "AtoB"
    /\ hTemplateB = iemFrameTemplate(FrameAt(hFrameIndex))

-----------------------------------------------------------------------------
(* Claims about the RainViewer provider adapter *)

\* The caches the call of pvOut read: the call leaves them as they were
CallPopulated ==
    /\ ~cachedFrames.isNull
    /\ ~pvInst[pvOut.by].cachedPaths.isNull
    /\ pvInst[pvOut.by].cachedHost # <<>>

CallKnownFrame ==
    /\ ~cachedFrames.isNull
    /\ \E k \in DOMAIN cachedFrames.items : cachedFrames.items[k].t = pvOut.t

\* C18: getTileUrlTemplate(frame) throws when no getFrames has populated the
\* cache, throws when the frame is not in the cached manifest, and a template
\* it returns is the template of the cached entry of that very frame.
C18_TemplateOnlyForCachedFrame ==
    pvOut.called =>
        /\ (~CallPopulated \/ ~CallKnownFrame) => pvOut.threw
        /\ ~pvOut.threw =>
              \E k \in DOMAIN cachedFrames.items :
                  /\ cachedFrames.items[k].t = pvOut.t
                  /\ k \in DOMAIN pvInst[pvOut.by].cachedPaths.items
                  /\ pvOut.template =
                        tileTemplateFor(pvInst[pvOut.by].cachedHost,
                                        pvInst[pvOut.by].cachedPaths.items[k])

\* Strictly oldest to newest
StrictlyAscending(times) ==
    \A i, j \in DOMAIN times : i < j => times[i] < times[j]

\* C25: the manifest a fetching getFrames returns is ordered strictly oldest to
\* newest, has at most maxFrames frames, and these are exactly the newest
\* maxFrames of the valid past+nowcast entries of the response; the cached
\* paths have the same length and order. The frame list the maps screen builds
\* from the same response (fetchRainViewerFrames) is ordered and bounded alike.
C25_ManifestNewestInOrder ==
    \A p \in Providers :
        pvInst[p].fetched =>
            LET frames == pvInst[p].returned.items
                paths == pvInst[p].cachedPaths.items
                data == pvInst[p].body
                valid == SelectSeq(data.past \o data.nowcast, KeepEntry)
                n == Min(ProviderOpts[p].maxFrames, Len(valid))
                Got == {<<frames[k].t, paths[k]>> : k \in DOMAIN frames}
                scans == fetchRainViewerFrames(data)
            IN /\ StrictlyAscending([k \in DOMAIN frames |-> frames[k].t])
               /\ Len(frames) = n
               /\ Len(paths) = Len(frames)
               /\ \A g \in Got : \E i \in DOMAIN valid :
                      g = <<valid[i].time, valid[i].path>>
               /\ \A i \in DOMAIN valid :
                      \/ <<valid[i].time, valid[i].path>> \in Got
                      \/ frames # <<>> /\ valid[i].time <= frames[1].t
               /\ StrictlyAscending([k \in DOMAIN scans |-> scans[k].iso])
               /\ Len(scans) <= DEFAULT_MAX_FRAMES

\* C30: getTileUrlTemplate(frame) on a provider, for a frame of the list that
\* provider's own fetch last returned from getFrames, returns the template built
\* from the host and the path of that frame's entry in that fetch, whatever
\* calls on this or another provider came in between.
C30_TemplateFromTheSameFetch ==
    (/\ pvOut.called
     /\ pvInst[pvOut.by].fetched
     /\ \E k \in DOMAIN pvInst[pvOut.by].returned.items :
            pvInst[pvOut.by].returned.items[k].t = pvOut.t) =>
        /\ ~pvOut.threw
        /\ \E k \in DOMAIN pvInst[pvOut.by].returned.items :
              /\ pvInst[pvOut.by].returned.items[k].t = pvOut.t
              /\ pvOut.template =
                    tileTemplateFor(pvInst[pvOut.by].cachedHost,
                                    pvInst[pvOut.by].cachedPaths.items[k])

=============================================================================
